---- MODULE Spec2Model ----
(***************************************************************************)
(* Model of the XBRL persistence core of railway_dsdgen:                   *)
(*   - insert_dsd_source_bulk / _ensure_unique_constraint                  *)
(*     (app/domain/repository/xbrl_parser_repository.py)                   *)
(*   - get_pool (app/foundation/db/asyncpg_pool.py)                        *)
(*   - XBRLParserService.get_xbrl_to_dataframe                             *)
(*     (app/domain/service/xbrl_parser_service.py)                         *)
(* The relational store is modelled with PostgreSQL READ COMMITTED         *)
(* semantics: every call works on its own uncommitted write set, row and   *)
(* table locks are guards, a failed statement poisons the transaction.     *)
(* Text is a sequence of one-character strings.                            *)
(***************************************************************************)
EXTENDS Integers, Sequences, FiniteSets, TLC

\* ------------------------------------------------------------------ bounds

\* Longest record batch handed to one insert_dsd_source_bulk call.
MaxBatch == 2

\* The concurrent callers of the repository (coroutines of one process).
Calls == {1, 2}

\* ------------------------------------------------------------ text helpers

Digits == {"0", "1", "2", "3", "4", "5", "6", "7", "8", "9"}

DigitVal(ch) ==
    CASE ch = "0" -> 0 [] ch = "1" -> 1 [] ch = "2" -> 2 [] ch = "3" -> 3
      [] ch = "4" -> 4 [] ch = "5" -> 5 [] ch = "6" -> 6 [] ch = "7" -> 7
      [] ch = "8" -> 8 [] OTHER -> 9

\* str.replace(',', ''): the text without its commas.
RECURSIVE StripCommas(_)
StripCommas(s) ==
    IF s = <<>> THEN <<>>
    ELSE IF Head(s) = "," THEN StripCommas(Tail(s))
    ELSE <<Head(s)>> \o StripCommas(Tail(s))

\* str.isdigit(): non-empty and every character a digit.
IsDigitStr(s) == s # <<>> /\ \A i \in 1..Len(s) : s[i] \in Digits

\* The number a digit string denotes.
RECURSIVE ParseNat(_)
ParseNat(s) ==
    IF s = <<>> THEN 0
    ELSE ParseNat(SubSeq(s, 1, Len(s) - 1)) * 10 + DigitVal(s[Len(s)])

\* What float() makes of a text: "num" for a digit string, "inf" for the
\* infinity spelling the parser accepts, "error" (ValueError) otherwise.
FloatKind(s) ==
    IF IsDigitStr(s) THEN "num"
    ELSE IF s = <<"i", "n", "f">> THEN "inf"
    ELSE "error"

\* ------------------------------------------------------------ input records

\* The canonical records a caller may hand over (keys of the source dict:
\* corp = 기업코드, name = 항목명, val = 값, year = 연도, unit = 단위).
Rec(corp, name, val, year, unit) ==
    [corp |-> corp, name |-> name, val |-> val, year |-> year, unit |-> unit]

Y2023 == <<"2", "0", "2", "3">>

\* The records of a single caller's batches: two records of one key with
\* different value and unit, a record whose year is not a number, one whose
\* value is not a number, one whose value is an infinity.
SeqRecords ==
    { Rec("A", "m", <<"1">>, Y2023, "u1"),
      Rec("A", "m", <<"1", ",", "2">>, Y2023, "u2"),
      Rec("A", "m", <<"1">>, <<"N", "/", "A">>, "u1"),
      Rec("A", "m", <<"x">>, Y2023, "u1"),
      Rec("A", "m", <<"i", "n", "f">>, Y2023, "u1") }

SeqsUpTo(S, n) == UNION { [1..k -> S] : k \in 0..n }

Batches == SeqsUpTo(SeqRecords, MaxBatch)

\* ------------------------------------------------------------ preprocessing

\* Lines 115-134: one record converted, or skipped on ValueError.
\* int(float('inf')) raises OverflowError, which the loop does not catch.
PreprocessOverflows(batch) ==
    \E i \in 1..Len(batch) : FloatKind(StripCommas(batch[i].val)) = "inf"

ProcessedRecord(r) ==
    LET value_str == StripCommas(r.val)
    IN  [ corp_code |-> r.corp,
          source_name |-> r.name,
          value |-> IF value_str = <<>> THEN 0 ELSE ParseNat(value_str),
          year |-> IF IsDigitStr(r.year) THEN ParseNat(r.year) ELSE 0,
          unit |-> r.unit ]

RECURSIVE Preprocess(_)
Preprocess(batch) ==
    IF batch = <<>> THEN <<>>
    ELSE LET r == Head(batch)
             value_str == StripCommas(r.val)
         IN  IF value_str # <<>> /\ FloatKind(value_str) = "error"
             THEN Preprocess(Tail(batch))
             ELSE <<ProcessedRecord(r)>> \o Preprocess(Tail(batch))

\* Line 138: a record lacks a required field.
MissingField(p) == p.corp_code = "" \/ p.source_name = "" \/ p.year = 0

RemoveAt(s, i) == SubSeq(s, 1, i - 1) \o SubSeq(s, i + 1, Len(s))

\* Lines 137-140: the list is popped while it is enumerated, so the element
\* that slides into a popped slot is not visited.
RECURSIVE ValidateFrom(_, _)
ValidateFrom(s, i) ==
    IF i > Len(s) THEN s
    ELSE IF MissingField(s[i]) THEN ValidateFrom(RemoveAt(s, i), i + 1)
    ELSE ValidateFrom(s, i + 1)

Validate(s) == ValidateFrom(s, 1)

Key(p) == <<p.corp_code, p.source_name, p.year>>

\* processed_records as line 142 finds them.
ProcessedOf(b) == Validate(Preprocess(b))

\* What the start of a call reads of its batch (lines 102, 118, 142).
StartClass(b) == <<b = <<>>, PreprocessOverflows(b), ProcessedOf(b)>>

\* One batch of every start class: the call keeps nothing else of a batch.
BatchReps ==
    { CHOOSE b \in Batches : StartClass(b) = k : k \in { StartClass(b) : b \in Batches } }


\* ------------------------------------------------------------------- state

\* Every coroutine that uses the pool: the upsert calls and one reader
\* (get_dsd_source_by_corp_code).
Readers == {3}
Procs == Calls \cup Readers

\* asyncpg.create_pool(..., max_size=20)
max_size == 20

PoolIds == 1..Cardinality(Procs)

VARIABLES
    tableExists,    \* relation dsd_source exists
    conCommitted,   \* constraint unique_dsd_source_entry exists (committed)
    rows,           \* committed rows of dsd_source
    pend,           \* pend[c]: row versions written by c's open transaction
    pendCon,        \* pendCon[c]: c's open transaction created the constraint
    touched,        \* touched[c]: c's open transaction holds a lock on the table
    txAborted,      \* txAborted[c]: a statement of c's transaction failed on the server
    pc,             \* position of every coroutine
    recs,           \* processed_records
    idx,            \* index of the record the loop is at (1-based)
    conOK,          \* constraint_exists
    existing,       \* id found by the fallback's check query, NoId for None
    ins,            \* inserted_count
    upd,            \* updated_count
    before,         \* before_count
    after,          \* after_count
    result,         \* the returned dict, or the exception that left the call
    _pool,          \* module global _pool: 0 for None, else the pool's id
    poolsCreated,   \* how many pools asyncpg.create_pool has made
    checkedOut,     \* checkedOut[p]: connections of pool p currently acquired
    mypool,         \* the pool get_pool returned to the coroutine, 0 before
    held,           \* the pool whose connection the coroutine holds, 0 for none
    raisedExc,      \* history: exception class raised inside the try block
    ensureFailed,   \* history: why _ensure_unique_constraint returned False
    outcomes,       \* history: "ins"/"upd" per processed record
    overlap,        \* history: another call ran since this one started
    replay,         \* history: the call repeats the caller's last, successful, batch
    unguarded,      \* history: a fallback existence check ran beside another call
    svcPc,          \* position of XBRLParserService.get_xbrl_to_dataframe
    df,             \* the DataFrame the parser returned, as a sequence of records
    svcOut,         \* what the service call ended with: a DataFrame or an exception
    svcExc,         \* history: the exception a step of the service call raised
    available_dirs, \* the subdirectories of the storage root, in listing order
    code,           \* corp_code, the entity identifier handed to the parser
    fpc,            \* position of XBRLParser.extract_xbrl_to_dataframe
    scan,           \* index of the directory a loop of find_xbrl_files is at
    corp_dir,       \* index of the chosen directory, 0 for None
    findOut,        \* what find_xbrl_files ended with
    extracted_tags, \* the facts get_xbrl_tags returned
    label_mapping,  \* the dict get_label_ko_mapping returned
    frame,          \* what extract_xbrl_to_dataframe returned
    parseExc,       \* history: the exception a step of the parser raised
    ncall           \* the last call of a normalizer function, with its result

dbVars == <<tableExists, conCommitted, rows, pend, pendCon, touched, txAborted>>
callVars == <<recs, idx, conOK, existing, ins, upd, before, after>>
poolVars == <<_pool, poolsCreated, checkedOut, mypool, held>>
histVars == <<raisedExc, ensureFailed, outcomes, overlap, replay, unguarded>>
svcVars == <<svcPc, df, svcOut, svcExc>>
\* The variables the repository's actions leave alone.
\* Files, directories and intermediate values of the parser.
parseVars == <<available_dirs, code, fpc, scan, corp_dir, findOut, extracted_tags,
               label_mapping, frame, parseExc, ncall>>
otherVars == <<svcVars, parseVars>>
vars == <<dbVars, pc, callVars, result, poolVars, histVars, svcVars, parseVars>>

\* --------------------------------------------------------------- the store

Ids(S) == { r.id : r \in S }

\* What c's statements read: committed rows, overlaid by c's own writes.
View(c) == { r \in rows : r.id \notin Ids(pend[c]) } \cup pend[c]

RowKey(r) == <<r.corp_code, r.source_name, r.year>>

WithKey(S, k) == { r \in S : RowKey(r) = k }

HasDuplicates(S) == \E r, q \in S : r # q /\ RowKey(r) = RowKey(q)

\* fetchrow's None.
NoId == <<>>

\* The id the serial column gives a new row: one no row version carries.
\* Ids are opaque to the code, so a row is named by its key and a copy
\* number: stores that differ only in the order of their inserts coincide.
NewId(k) ==
    LET used == Ids(rows) \cup UNION { Ids(pend[d]) : d \in Calls }
        n == CHOOSE i \in 1..(Cardinality(used) + 1) : <<k, i>> \notin used
    IN  <<k, n>>

\* A row of dsd_source: the surrogate id and the five columns of line 176.
Row(id, p) ==
    [ id |-> id, corp_code |-> p.corp_code, source_name |-> p.source_name,
      year |-> p.year, value |-> p.value, unit |-> p.unit ]

NewRow(p) == Row(NewId(Key(p)), p)

\* Fault: the SET clause is lost and the stored row keeps its old columns.
UpdatedRowKept(r, p) == r

\* Lines 178-181 and 218-222: SET value, unit; the other columns stay.
UpdatedRow(r, p) == [r EXCEPT !.value = p.value, !.unit = p.unit]

\* Fault: xmax read as 0 for every returned row version.
XmaxZero(conflict, xid) == 0

\* The system column xmax of the row version an INSERT ... ON CONFLICT
\* returns: 0 for a freshly inserted row; for a row the statement updated,
\* the id of the transaction (not 0) that locked the conflicting row.
Xmax(conflict, xid) == IF conflict THEN xid ELSE 0

\* Fault: every returned row counts as inserted.
ReturnedInsertedAlways(xmax) == TRUE

\* Line 182 and 197: RETURNING (xmax = 0) AS inserted.
ReturnedInserted(xmax) == xmax = 0

\* c's write set with row version r put in place of any older version of it.
Written(c, r) == { q \in pend[c] : q.id # r.id } \cup {r}

\* Other transactions holding the row lock of id.
RowLockers(c, id) == { d \in Calls \ {c} : id \in Ids(pend[d]) }

\* Other transactions with an uncommitted insert of key k.
KeyInserters(c, k) ==
    { d \in Calls \ {c} : \E q \in pend[d] : RowKey(q) = k /\ q.id \notin Ids(rows) }

\* The ACCESS EXCLUSIVE lock of another transaction's ALTER TABLE.
TableFree(c) == \A d \in Calls \ {c} : ~pendCon[d]

\* ALTER TABLE waits for every other transaction that touched the table.
AlterFree(c) == \A d \in Calls \ {c} : ~touched[d] /\ ~pendCon[d]

\* Fault: the block commits however it is left.
TxExitCommit(c, failed) == View(c)

\* Line 162, async with conn.transaction(): what is stored when the block
\* is left, by an exception (rollback) or normally (commit).
TxExit(c, failed) == IF failed THEN rows ELSE View(c)

\* Fault: the connection is kept when the block is left.
ReleasedNot(n) == n

\* Line 160, async with pool.acquire(): the connection goes back to the pool
\* however the block is left.
Released(n) == n - 1

\* ------------------------------------------------------------- the results

NoResult ==
    [ success |-> FALSE, inserted |-> 0, updated |-> 0, error |-> "pending",
      total_records |-> -1, before_count |-> -1, after_count |-> -1 ]

\* Lines 103-108
EmptyBatchResult == [NoResult EXCEPT !.success = TRUE, !.error = ""]

\* Lines 143-148
NoValidResult == [NoResult EXCEPT !.error = "no_valid"]

\* Lines 255-263
SuccessResult(i, u, total, b, a) ==
    [ success |-> TRUE, inserted |-> i, updated |-> u, error |-> "",
      total_records |-> total, before_count |-> b, after_count |-> a ]

\* Fault: the handler of PostgresError placed first takes every class.
ErrorClassGeneric(exc) == "database"

\* Lines 265-288: the except chain, most specific class first.
ErrorClass(exc) ==
    CASE exc = "UniqueViolationError" -> "unique"
      [] exc = "PostgresError" -> "database"
      [] OTHER -> "unexpected"

\* Fault: the failure result drops the counters.
ErrorResultNoCounts(exc, i, u) == [NoResult EXCEPT !.error = ErrorClass(exc)]

\* Lines 265-288: the failure result carries the counters reached.
ErrorResult(exc, i, u) ==
    [NoResult EXCEPT !.error = ErrorClass(exc), !.inserted = i, !.updated = u]

\* An exception raised before the try block leaves the function.
PropagatedResult == [NoResult EXCEPT !.error = "propagated"]


\* What the parser's functions hand back. A document that is None has
\* kind "none".
NoDoc == [kind |-> "none"]

\* find_xbrl_files has not ended; it raised exc; it returned its tuple.
NoFind == [kind |-> "none"]
FindRaised(exc) == [kind |-> "raised", exc |-> exc]
FindReturned(xbrl_path, label_path, xbrl_soup, label_soup) ==
    [ kind |-> "returned", xbrl_path |-> xbrl_path, label_path |-> label_path,
      xbrl_soup |-> xbrl_soup, label_soup |-> label_soup ]

\* extract_xbrl_to_dataframe has not ended; it returned a DataFrame with
\* these records (pd.DataFrame() has none).
NoFrame == [kind |-> "none", records |-> <<>>]
DataFrame(records) == [kind |-> "returned", records |-> records]

\* No normalizer function was called yet.
NoCall == [fn |-> "none"]

\* -------------------------------------------------------------------- Init

\* The stores a call may find: empty, or holding a row an earlier call wrote.
InitialStores ==
    LET p == ProcessedRecord(Rec("A", "m", <<"1", ",", "2">>, Y2023, "u2"))
    IN  { {}, { Row(<<Key(p), 1>>, p) } }

Init ==
    /\ tableExists \in BOOLEAN
    /\ conCommitted \in BOOLEAN
    /\ conCommitted => tableExists
    /\ rows \in InitialStores
    /\ rows # {} => tableExists
    /\ pend = [c \in Calls |-> {}]
    /\ pendCon = [c \in Calls |-> FALSE]
    /\ touched = [c \in Calls |-> FALSE]
    /\ txAborted = [c \in Calls |-> FALSE]
    /\ pc = [p \in Procs |-> "idle"]
    /\ recs = [c \in Calls |-> <<>>]
    /\ idx = [c \in Calls |-> 1]
    /\ conOK = [c \in Calls |-> FALSE]
    /\ existing = [c \in Calls |-> NoId]
    /\ ins = [c \in Calls |-> 0]
    /\ upd = [c \in Calls |-> 0]
    /\ before = [c \in Calls |-> -1]
    /\ after = [c \in Calls |-> -1]
    /\ result = [p \in Procs |-> NoResult]
    /\ _pool = 0
    /\ poolsCreated = 0
    /\ checkedOut = [p \in PoolIds |-> 0]
    /\ mypool = [p \in Procs |-> 0]
    /\ held = [p \in Procs |-> 0]
    /\ raisedExc = [c \in Calls |-> "none"]
    /\ ensureFailed = [c \in Calls |-> "no"]
    /\ outcomes = [c \in Calls |-> <<>>]
    /\ overlap = [c \in Calls |-> FALSE]
    /\ replay = [c \in Calls |-> FALSE]
    /\ unguarded = FALSE
    /\ svcPc = "idle"
    /\ df = <<>>
    /\ svcOut = <<"none">>
    /\ svcExc = "none"
    /\ available_dirs = <<>>
    /\ code = <<>>
    /\ fpc = "idle"
    /\ scan = 1
    /\ corp_dir = 0
    /\ findOut = NoFind
    /\ extracted_tags = <<>>
    /\ label_mapping = <<>>
    /\ frame = NoFrame
    /\ parseExc = "none"
    /\ ncall = NoCall

Running(p) == pc[p] \notin {"idle", "done"}

\* ------------------------------------------------- insert_dsd_source_bulk

\* Lines 102-153: the call starts; everything up to the first await.
StartCall(c, b) ==
    /\ pc[c] \in {"idle", "done"}
    /\ raisedExc' = [raisedExc EXCEPT ![c] = "none"]
    /\ ensureFailed' = [ensureFailed EXCEPT ![c] = "no"]
    /\ outcomes' = [outcomes EXCEPT ![c] = <<>>]
    /\ overlap' = [d \in Calls |->
                     IF d = c THEN \E e \in Calls \ {c} : Running(e)
                     ELSE overlap[d] \/ pc[d] # "idle"]
    /\ replay' = [replay EXCEPT ![c] =
                     /\ pc[c] = "done"
                     /\ ProcessedOf(b) = recs[c]
                     /\ recs[c] # <<>>
                     /\ result[c].success
                     /\ ~overlap[c]
                     /\ \A e \in Calls \ {c} : ~Running(e)]
    /\ ins' = [ins EXCEPT ![c] = 0]
    /\ upd' = [upd EXCEPT ![c] = 0]
    /\ idx' = [idx EXCEPT ![c] = 1]
    /\ conOK' = [conOK EXCEPT ![c] = FALSE]
    /\ mypool' = [mypool EXCEPT ![c] = 0]
    /\ IF b = <<>>
       THEN /\ result' = [result EXCEPT ![c] = EmptyBatchResult]
            /\ pc' = [pc EXCEPT ![c] = "done"]
            /\ recs' = [recs EXCEPT ![c] = <<>>]
       ELSE IF PreprocessOverflows(b)
       THEN /\ result' = [result EXCEPT ![c] = PropagatedResult]
            /\ pc' = [pc EXCEPT ![c] = "done"]
            /\ recs' = [recs EXCEPT ![c] = <<>>]
       ELSE IF ProcessedOf(b) = <<>>
       THEN /\ result' = [result EXCEPT ![c] = NoValidResult]
            /\ pc' = [pc EXCEPT ![c] = "done"]
            /\ recs' = [recs EXCEPT ![c] = <<>>]
       ELSE /\ result' = [result EXCEPT ![c] = NoResult]
            /\ pc' = [pc EXCEPT ![c] = "get_pool"]
            /\ recs' = [recs EXCEPT ![c] = ProcessedOf(b)]
    /\ UNCHANGED <<dbVars, existing, before, after, _pool, poolsCreated,
                   checkedOut, held, unguarded>>

\* A caller of the repository starts a call.
Begin(c, b) == StartCall(c, b) /\ UNCHANGED otherVars

\* What every way out of the try block does to the transaction, the
\* connection and the call's locals (lines 160-162 and 255-288).
Leave(c, failed, res) ==
    /\ rows' = TxExit(c, failed)
    /\ conCommitted' = (conCommitted \/ (pendCon[c] /\ ~failed))
    /\ pend' = [pend EXCEPT ![c] = {}]
    /\ pendCon' = [pendCon EXCEPT ![c] = FALSE]
    /\ touched' = [touched EXCEPT ![c] = FALSE]
    /\ txAborted' = [txAborted EXCEPT ![c] = FALSE]
    /\ checkedOut' = IF held[c] # 0
                     THEN [checkedOut EXCEPT ![held[c]] = Released(@)]
                     ELSE checkedOut
    /\ held' = [held EXCEPT ![c] = 0]
    /\ result' = [result EXCEPT ![c] = res]
    /\ pc' = [pc EXCEPT ![c] = "done"]
    /\ idx' = [idx EXCEPT ![c] = 1]
    /\ existing' = [existing EXCEPT ![c] = NoId]
    /\ before' = [before EXCEPT ![c] = -1]
    /\ after' = [after EXCEPT ![c] = -1]
    /\ UNCHANGED <<otherVars, tableExists, recs, conOK, ins, upd, _pool, poolsCreated, mypool,
                   ensureFailed, outcomes, overlap, replay, unguarded>>

\* An exception of class exc raised inside the try block (lines 265-288).
Raise(c, exc) ==
    /\ raisedExc' = [raisedExc EXCEPT ![c] = exc]
    /\ Leave(c, TRUE, ErrorResult(exc, ins[c], upd[c]))


\* ---------------------------------------------------------------- get_pool

\* asyncpg_pool.py line 71: if _pool is None; line 86: return _pool.
GetPoolCheck(p) ==
    /\ pc[p] = "get_pool"
    /\ IF _pool # 0
       THEN /\ mypool' = [mypool EXCEPT ![p] = _pool]
            /\ pc' = [pc EXCEPT ![p] = "acquire"]
       ELSE /\ pc' = [pc EXCEPT ![p] = "create_pool"]
            /\ UNCHANGED mypool
    /\ UNCHANGED <<otherVars, dbVars, callVars, result, _pool, poolsCreated, checkedOut,
                   held, histVars>>

\* asyncpg_pool.py lines 76-86: the awaited create_pool returns, the global
\* is assigned and returned.
GetPoolCreated(p) ==
    /\ pc[p] = "create_pool"
    /\ poolsCreated' = poolsCreated + 1
    /\ _pool' = poolsCreated + 1
    /\ mypool' = [mypool EXCEPT ![p] = poolsCreated + 1]
    /\ pc' = [pc EXCEPT ![p] = "acquire"]
    /\ UNCHANGED <<otherVars, dbVars, callVars, result, checkedOut, held, histVars>>

\* Line 160 / 305: pool.acquire() hands out a connection while the pool has
\* one left; for the upsert call the transaction block is entered with it.
Acquire(p) ==
    /\ pc[p] = "acquire"
    /\ checkedOut[mypool[p]] < max_size
    /\ checkedOut' = [checkedOut EXCEPT ![mypool[p]] = @ + 1]
    /\ held' = [held EXCEPT ![p] = mypool[p]]
    /\ pc' = [pc EXCEPT ![p] = IF p \in Calls THEN "chk_con" ELSE "r_fetch"]
    /\ UNCHANGED <<otherVars, dbVars, callVars, result, _pool, poolsCreated, mypool,
                   histVars>>

\* Line 157: get_pool raises (missing environment: ValueError; the server
\* refuses: a PostgresError or an OSError), or line 160: acquire raises.
PoolError(c, exc) ==
    /\ pc[c] \in {"create_pool", "acquire"}
    /\ Raise(c, exc)

\* ------------------------------------------------ _ensure_unique_constraint

\* A check query that finds the constraint whatever the catalog holds.
ConstraintFoundAlways(c) == TRUE

\* Lines 32-39: what the query on pg_constraint answers inside the
\* transaction of call c: the committed catalog and the call's own ALTER.
ConstraintFound(c) == conCommitted \/ pendCon[c]

\* Lines 32-41 and 67-69: is the constraint in pg_constraint?
EnsureCheckConstraint(c) ==
    /\ pc[c] = "chk_con"
    /\ IF ConstraintFound(c)
       THEN /\ conOK' = [conOK EXCEPT ![c] = TRUE]
            /\ pc' = [pc EXCEPT ![c] = "count1"]
       ELSE /\ pc' = [pc EXCEPT ![c] = "chk_tab"]
            /\ UNCHANGED conOK
    /\ UNCHANGED <<otherVars, dbVars, recs, idx, existing, ins, upd, before, after,
                   result, poolVars, histVars>>

\* Lines 45-56: is the relation there? If not, return False.
EnsureCheckTable(c) ==
    /\ pc[c] = "chk_tab"
    /\ IF tableExists
       THEN /\ pc' = [pc EXCEPT ![c] = "alter"]
            /\ UNCHANGED ensureFailed
       ELSE /\ pc' = [pc EXCEPT ![c] = "count1"]
            /\ ensureFailed' = [ensureFailed EXCEPT ![c] = "no_table"]
    /\ UNCHANGED <<otherVars, dbVars, callVars, result, poolVars,
                   raisedExc, outcomes, overlap, replay, unguarded>>

\* Lines 59-66 and 71-73: ALTER TABLE ... ADD CONSTRAINT. It waits for the
\* table lock; it fails on the server when the constraint was committed by
\* another transaction meanwhile or the rows hold a duplicate key, and the
\* handler turns that into False.
EnsureCreate(c) ==
    /\ pc[c] = "alter"
    /\ AlterFree(c)
    /\ pc' = [pc EXCEPT ![c] = "count1"]
    /\ IF conCommitted \/ HasDuplicates(rows)
       THEN /\ txAborted' = [txAborted EXCEPT ![c] = TRUE]
            /\ ensureFailed' = [ensureFailed EXCEPT ![c] = "server"]
            /\ UNCHANGED <<pendCon, touched, conOK>>
       ELSE /\ pendCon' = [pendCon EXCEPT ![c] = TRUE]
            /\ touched' = [touched EXCEPT ![c] = TRUE]
            /\ conOK' = [conOK EXCEPT ![c] = TRUE]
            /\ UNCHANGED <<txAborted, ensureFailed>>
    /\ UNCHANGED <<otherVars, tableExists, conCommitted, rows, pend, recs, idx, existing,
                   ins, upd, before, after, result, poolVars,
                   raisedExc, outcomes, overlap, replay, unguarded>>

\* Lines 71-73: a statement of the function raises and the handler returns
\* False. kind "server": the server reported the error, which leaves the
\* enclosing transaction aborted. kind "client": the error arose on the
\* client (the command timeout fired as the check query was completing), so
\* the transaction is still usable.
EnsureError(c, kind) ==
    /\ pc[c] \in {"chk_con", "chk_tab", "alter"}
    /\ kind = "client" => pc[c] # "alter"
    /\ pc' = [pc EXCEPT ![c] = "count1"]
    /\ txAborted' = [txAborted EXCEPT ![c] = (kind = "server")]
    /\ ensureFailed' = [ensureFailed EXCEPT ![c] = kind]
    /\ UNCHANGED <<otherVars, tableExists, conCommitted, rows, pend, pendCon, touched,
                   callVars, result, poolVars, raisedExc,
                   outcomes, overlap, replay, unguarded>>


\* --------------------------------------- insert_dsd_source_bulk, the queries

\* Where the loop goes after record idx[c] was written.
AfterRecord(c) ==
    IF idx[c] < Len(recs[c])
    THEN (IF conOK[c] THEN "upsert" ELSE "fb_check")
    ELSE "count2"

\* Lines 167-170: SELECT COUNT(*) before the loop. In an aborted transaction
\* and without the relation the statement raises a PostgresError.
CountBefore(c) ==
    /\ pc[c] = "count1"
    /\ IF txAborted[c] \/ ~tableExists
       THEN Raise(c, "PostgresError")
       ELSE /\ TableFree(c)
            /\ before' = [before EXCEPT ![c] = Cardinality(View(c))]
            /\ touched' = [touched EXCEPT ![c] = TRUE]
            /\ pc' = [pc EXCEPT ![c] = IF conOK[c] THEN "upsert" ELSE "fb_check"]
            /\ UNCHANGED <<otherVars, tableExists, conCommitted, rows, pend, pendCon,
                           txAborted, recs, idx, conOK, existing, ins, upd,
                           after, result, poolVars, histVars>>

\* Fault: the conflict target is lost and any stored row conflicts.
ConflictRowsAny(c, k) == View(c)

\* The row an INSERT ... ON CONFLICT of key k conflicts with, as a set.
ConflictRows(c, k) == WithKey(View(c), k)

\* Lines 175-200: one INSERT ... ON CONFLICT DO UPDATE ... RETURNING. It
\* waits while another transaction holds the conflicting row or has an
\* uncommitted insert of the key.
Upsert(c) ==
    /\ pc[c] = "upsert"
    /\ LET p == recs[c][idx[c]]
           k == Key(p)
           hit == ConflictRows(c, k)
       IN  /\ \A r \in hit : RowLockers(c, r.id) = {}
           /\ hit = {} => KeyInserters(c, k) = {}
           /\ LET r == IF hit = {} THEN NewRow(p)
                       ELSE UpdatedRow(CHOOSE q \in hit : TRUE, p)
              IN  /\ pend' = [pend EXCEPT ![c] = Written(c, r)]
                  /\ IF ReturnedInserted(Xmax(hit # {}, c))
                     THEN /\ ins' = [ins EXCEPT ![c] = @ + 1]
                          /\ outcomes' = [outcomes EXCEPT ![c] = Append(@, "ins")]
                          /\ UNCHANGED upd
                     ELSE /\ upd' = [upd EXCEPT ![c] = @ + 1]
                          /\ outcomes' = [outcomes EXCEPT ![c] = Append(@, "upd")]
                          /\ UNCHANGED ins
    /\ idx' = [idx EXCEPT ![c] = @ + 1]
    /\ pc' = [pc EXCEPT ![c] = AfterRecord(c)]
    /\ UNCHANGED <<otherVars, tableExists, conCommitted, rows, pendCon, touched,
                   txAborted, recs, conOK, existing, before, after, result,
                   poolVars, raisedExc, ensureFailed, overlap,
                   replay, unguarded>>

\* Fault: the check query matches no row.
ExistingRowsNone(c, p) == {}

\* Lines 205-208: the rows the check query selects for record p.
ExistingRows(c, p) == WithKey(View(c), Key(p))

\* The constraint checks c's inserts once it is committed or c's own.
ConstraintInForce(c) == conCommitted \/ pendCon[c]

\* Lines 205-214: the fallback's existence check; fetchrow returns one of
\* the rows with the key, or None.
FallbackCheck(c) ==
    /\ pc[c] = "fb_check"
    /\ LET found == ExistingRows(c, recs[c][idx[c]])
       IN  \E id \in (IF found = {} THEN {NoId} ELSE Ids(found)) :
               existing' = [existing EXCEPT ![c] = id]
    /\ unguarded' = (unguarded \/ (~ConstraintInForce(c) /\
                       \E d \in Calls \ {c} : Running(d)))
    /\ pc' = [pc EXCEPT ![c] = "fb_write"]
    /\ UNCHANGED <<otherVars, dbVars, recs, idx, conOK, ins, upd, before, after, result,
                   poolVars, raisedExc, ensureFailed, outcomes, overlap, replay>>

\* Lines 216-229: UPDATE ... WHERE id = existing; waits for the row lock.
FallbackUpdate(c) ==
    /\ pc[c] = "fb_write"
    /\ existing[c] # NoId
    /\ RowLockers(c, existing[c]) = {}
    /\ LET old == CHOOSE r \in View(c) : r.id = existing[c]
       IN  pend' = [pend EXCEPT ![c] = Written(c, UpdatedRow(old, recs[c][idx[c]]))]
    /\ upd' = [upd EXCEPT ![c] = @ + 1]
    /\ outcomes' = [outcomes EXCEPT ![c] = Append(@, "upd")]
    /\ idx' = [idx EXCEPT ![c] = @ + 1]
    /\ pc' = [pc EXCEPT ![c] = AfterRecord(c)]
    /\ UNCHANGED <<otherVars, tableExists, conCommitted, rows, pendCon, touched,
                   txAborted, recs, conOK, existing, ins, before, after,
                   result, poolVars, raisedExc, ensureFailed,
                   overlap, replay, unguarded>>

\* Lines 230-244: plain INSERT. With the constraint in force it waits for an
\* uncommitted insert of the key and raises UniqueViolationError when the
\* key is stored.
FallbackInsert(c) ==
    /\ pc[c] = "fb_write"
    /\ existing[c] = NoId
    /\ LET p == recs[c][idx[c]]
           k == Key(p)
       IN  IF ConstraintInForce(c) /\ WithKey(View(c), k) # {}
           THEN Raise(c, "UniqueViolationError")
           ELSE /\ ConstraintInForce(c) => KeyInserters(c, k) = {}
                /\ pend' = [pend EXCEPT ![c] = Written(c, NewRow(p))]
                /\ ins' = [ins EXCEPT ![c] = @ + 1]
                /\ outcomes' = [outcomes EXCEPT ![c] = Append(@, "ins")]
                /\ idx' = [idx EXCEPT ![c] = @ + 1]
                /\ pc' = [pc EXCEPT ![c] = AfterRecord(c)]
                /\ UNCHANGED <<otherVars, tableExists, conCommitted, rows, pendCon,
                               touched, txAborted, recs, conOK, existing, upd,
                               before, after, result, poolVars,
                               raisedExc, ensureFailed, overlap, replay, unguarded>>

\* Lines 247-250: SELECT COUNT(*) after the loop.
CountAfter(c) ==
    /\ pc[c] = "count2"
    /\ after' = [after EXCEPT ![c] = Cardinality(View(c))]
    /\ pc' = [pc EXCEPT ![c] = "commit"]
    /\ UNCHANGED <<otherVars, dbVars, recs, idx, conOK, existing, ins, upd, before,
                   result, poolVars, histVars>>

\* Lines 162, 160 and 255-263: the transaction block commits, the connection
\* is released, the summary is returned.
Commit(c) ==
    /\ pc[c] = "commit"
    /\ UNCHANGED raisedExc
    /\ Leave(c, FALSE,
             SuccessResult(ins[c], upd[c], Len(recs[c]), before[c], after[c]))

\* Any statement after the constraint check fails on the server (connection
\* lost, statement cancelled, ...): a PostgresError inside the try block.
StatementError(c) ==
    /\ pc[c] \in {"count1", "upsert", "fb_check", "fb_write", "count2", "commit"}
    /\ Raise(c, "PostgresError")

\* What c's next statement waits for: the transactions holding the row or
\* the uncommitted key it needs.
WaitsFor(c) ==
    IF pc[c] = "upsert"
    THEN LET k == Key(recs[c][idx[c]])
             hit == ConflictRows(c, k)
         IN  IF hit = {} THEN KeyInserters(c, k)
             ELSE UNION { RowLockers(c, r.id) : r \in hit }
    ELSE IF pc[c] = "fb_write" /\ existing[c] # NoId
    THEN RowLockers(c, existing[c])
    ELSE IF pc[c] = "fb_write" /\ ConstraintInForce(c)
    THEN KeyInserters(c, Key(recs[c][idx[c]]))
    ELSE {}

\* Two transactions wait for each other: the server's deadlock detector
\* aborts one of them with DeadlockDetectedError, a PostgresError.
DeadlockAbort(c) ==
    /\ \E d \in WaitsFor(c) : c \in WaitsFor(d)
    /\ Raise(c, "PostgresError")


\* ---------------------------------------------- get_dsd_source_by_corp_code

ReaderUnchanged ==
    UNCHANGED <<otherVars, dbVars, callVars, _pool, poolsCreated, histVars>>

\* Lines 302-303: the query starts.
ReadBegin(p) ==
    /\ pc[p] \in {"idle", "done"}
    /\ pc' = [pc EXCEPT ![p] = "get_pool"]
    /\ result' = [result EXCEPT ![p] = NoResult]
    /\ mypool' = [mypool EXCEPT ![p] = 0]
    /\ UNCHANGED <<checkedOut, held>>
    /\ ReaderUnchanged

\* Lines 305-322: the SELECT returns the entity's rows (all of them, or
\* those of one year; year 0 stands for None) and the connection is released.
ReadFetch(p, corp_code, year) ==
    /\ pc[p] = "r_fetch"
    /\ tableExists
    /\ \A d \in Calls : ~pendCon[d]
    /\ checkedOut' = [checkedOut EXCEPT ![held[p]] = Released(@)]
    /\ held' = [held EXCEPT ![p] = 0]
    /\ result' = [result EXCEPT ![p] =
           [EmptyBatchResult EXCEPT !.total_records =
               Cardinality({ r \in rows : /\ r.corp_code = corp_code
                                          /\ (year # 0 => r.year = year) })]]
    /\ pc' = [pc EXCEPT ![p] = "done"]
    /\ UNCHANGED mypool
    /\ ReaderUnchanged

\* Lines 324-326: any exception (get_pool, acquire or the query fails; the
\* relation is absent) is logged and [] is returned; the connection, if one
\* was acquired, has been released by the acquire block.
ReadError(p) ==
    /\ pc[p] \in {"create_pool", "acquire", "r_fetch"}
    /\ checkedOut' = IF held[p] # 0
                     THEN [checkedOut EXCEPT ![held[p]] = Released(@)]
                     ELSE checkedOut
    /\ held' = [held EXCEPT ![p] = 0]
    /\ result' = [result EXCEPT ![p] = [NoResult EXCEPT !.error = "", !.total_records = 0]]
    /\ pc' = [pc EXCEPT ![p] = "done"]
    /\ UNCHANGED mypool
    /\ ReaderUnchanged

\* ------------------------------- XBRLParserService.get_xbrl_to_dataframe

RepoUnchanged ==
    UNCHANGED <<dbVars, pc, callVars, result, poolVars, histVars, parseVars>>

\* xbrl_parser.py lines 496-498: extract_xbrl_to_dataframe catches every
\* exception of its steps and returns an empty DataFrame.
ParserCatch(exc) == <<>>

\* Fault: the handler re-raises.
ServiceCatchReraise(exc) == <<"raised", exc>>

\* xbrl_parser_service.py lines 51-54: the service catches every exception
\* and returns an empty DataFrame.
ServiceCatch(exc) == <<"returned", <<>>>>

\* Fault: the records are returned only when the upsert succeeded.
ServiceReturnOnSuccess(records, db_result) ==
    IF db_result.success THEN <<"returned", records>> ELSE <<"returned", <<>>>>

\* xbrl_parser_service.py lines 41-49: the summary of the upsert is logged
\* and the DataFrame is returned as the parser produced it.
ServiceReturn(records, db_result) == <<"returned", records>>

\* Line 26: the service call starts.
SvcBegin ==
    /\ svcPc \in {"idle", "done"}
    /\ pc[1] \in {"idle", "done"}
    /\ svcPc' = "find"
    /\ df' = <<>>
    /\ svcOut' = <<"none">>
    /\ svcExc' = "none"
    /\ RepoUnchanged

\* xbrl_parser.py line 438: find_xbrl_files locates and loads the documents,
\* or raises FileNotFoundError (no directory, no instance document),
\* ValueError (the instance document cannot be read) or another exception.
SvcFind(exc) ==
    /\ svcPc = "find"
    /\ IF exc = "none"
       THEN /\ svcPc' = "tags"
            /\ UNCHANGED <<df, svcExc>>
       ELSE /\ svcPc' = "parsed"
            /\ df' = ParserCatch(exc)
            /\ svcExc' = exc
    /\ UNCHANGED svcOut
    /\ RepoUnchanged

\* xbrl_parser.py lines 441-445: get_xbrl_tags; without a tag (none found,
\* or an exception inside it, lines 313-315) an empty DataFrame is returned.
SvcTags(found) ==
    /\ svcPc = "tags"
    /\ IF found
       THEN /\ svcPc' = "assemble"
            /\ UNCHANGED df
       ELSE /\ svcPc' = "parsed"
            /\ df' = <<>>
    /\ UNCHANGED <<svcOut, svcExc>>
    /\ RepoUnchanged

\* xbrl_parser.py lines 448-494: the records are assembled, one per tag, or
\* a step raises (the formatter's int() of an infinity: OverflowError).
SvcAssemble(records, exc) ==
    /\ svcPc = "assemble"
    /\ svcPc' = "parsed"
    /\ IF exc = "none"
       THEN /\ df' = records
            /\ UNCHANGED svcExc
       ELSE /\ df' = ParserCatch(exc)
            /\ svcExc' = exc
    /\ UNCHANGED svcOut
    /\ RepoUnchanged

\* Lines 34 and 49: an empty DataFrame is returned without an upsert.
SvcReturnEmpty ==
    /\ svcPc = "parsed"
    /\ df = <<>>
    /\ svcPc' = "done"
    /\ svcOut' = <<"returned", df>>
    /\ UNCHANGED <<df, svcExc>>
    /\ RepoUnchanged

\* Lines 34-39: the records are handed to insert_dsd_source_bulk.
SvcUpsert ==
    /\ svcPc = "parsed"
    /\ df # <<>>
    /\ svcPc' = "upsert"
    /\ UNCHANGED <<df, svcOut, svcExc, parseVars>>
    /\ StartCall(1, df)

\* Lines 41-54: the upsert returned its summary, and the DataFrame is
\* returned whatever the summary says; or the upsert raised, and the
\* handler returns an empty DataFrame.
SvcReturn ==
    /\ svcPc = "upsert"
    /\ pc[1] = "done"
    /\ svcPc' = "done"
    /\ IF result[1].error = "propagated"
       THEN /\ svcOut' = ServiceCatch("OverflowError")
            /\ svcExc' = "OverflowError"
       ELSE /\ svcOut' = ServiceReturn(df, result[1])
            /\ UNCHANGED svcExc
    /\ UNCHANGED df
    /\ RepoUnchanged

\* ------------------------------------------------------------ specifications

\* The batches of concurrent callers: a valid record for each of two
\* entities; one of them, or both in either order.
ConcRecords ==
    { Rec("A", "m", <<"1">>, Y2023, "u1"), Rec("B", "m", <<"1">>, Y2023, "u1") }

ConcBatches ==
    { b \in SeqsUpTo(ConcRecords, Cardinality(ConcRecords)) :
        /\ b # <<>>
        /\ \A i, j \in 1..Len(b) : i # j => b[i] # b[j] }

ErrorKinds == {"server", "client"}
PoolExceptions == {"PostgresError", "Exception"}

\* The steps of one upsert call after its start.
CallStep(c) ==
    \/ GetPoolCheck(c)
    \/ GetPoolCreated(c)
    \/ Acquire(c)
    \/ \E exc \in PoolExceptions : PoolError(c, exc)
    \/ EnsureCheckConstraint(c)
    \/ EnsureCheckTable(c)
    \/ EnsureCreate(c)
    \/ \E kind \in ErrorKinds : EnsureError(c, kind)
    \/ CountBefore(c)
    \/ Upsert(c)
    \/ FallbackCheck(c)
    \/ FallbackUpdate(c)
    \/ FallbackInsert(c)
    \/ CountAfter(c)
    \/ Commit(c)
    \/ StatementError(c)

\* Two upsert calls, one per caller, in any interleaving, on any of the
\* initial stores.
Next ==
    \E c \in Calls :
        \/ \E b \in ConcBatches : pc[c] = "idle" /\ Begin(c, b)
        \/ CallStep(c)
        \/ DeadlockAbort(c)

Spec == Init /\ [][Next]_vars

\* One caller, one call after the other, any batch.
NextSeq ==
    \/ \E b \in BatchReps : Begin(1, b)
    \/ CallStep(1)

SpecSeq == Init /\ [][NextSeq]_vars

\* One upsert caller and one reader sharing the pool.
NextPool ==
    \/ \E b \in ConcBatches : Begin(1, b)
    \/ CallStep(1)
    \/ \E r \in Readers :
          \/ ReadBegin(r)
          \/ GetPoolCheck(r)
          \/ GetPoolCreated(r)
          \/ Acquire(r)
          \/ \E corp_code \in {"A", "B"}, year \in {0, 2023} : ReadFetch(r, corp_code, year)
          \/ ReadError(r)

SpecPool == Init /\ [][NextPool]_vars

ParserExceptions == {"none", "FileNotFoundError", "ValueError", "Exception"}

\* One service call after the other; the upsert runs inside it.
NextSvc ==
    \/ SvcBegin
    \/ \E exc \in ParserExceptions : SvcFind(exc)
    \/ \E found \in BOOLEAN : SvcTags(found)
    \/ \E records \in BatchReps \ {<<>>}, exc \in {"none", "OverflowError"} :
          SvcAssemble(records, exc)
    \/ SvcReturnEmpty
    \/ SvcUpsert
    \/ CallStep(1)
    \/ SvcReturn

SpecSvc == Init /\ [][NextSvc]_vars

\* One batch per caller, each for its own entity: caller 1 writes entity A,
\* caller 2 entity B.
EntityBatch(c) ==
    IF c = 1 THEN <<Rec("A", "m", <<"1">>, Y2023, "u1")>>
    ELSE <<Rec("B", "m", <<"1">>, Y2023, "u1")>>

\* The steps of an upsert call when no statement fails for a reason outside
\* the calls themselves.
HealthyStep(c) ==
    \/ GetPoolCheck(c)
    \/ GetPoolCreated(c)
    \/ Acquire(c)
    \/ EnsureCheckConstraint(c)
    \/ EnsureCheckTable(c)
    \/ EnsureCreate(c)
    \/ CountBefore(c)
    \/ Upsert(c)
    \/ CountAfter(c)
    \/ Commit(c)

\* Two upsert calls for different entities, in any interleaving, on a
\* server and a pool that do not fail by themselves.
NextEntities ==
    \E c \in Calls :
        \/ pc[c] = "idle" /\ Begin(c, EntityBatch(c))
        \/ HealthyStep(c)

SpecEntities == Init /\ [][NextEntities]_vars

\* ------------------------------------------- XBRLParser.find_xbrl_files

\* Longest listing of the storage root.
MaxDirs == 2

\* The `in` of two texts.
Contains(s, p) ==
    \E i \in 1..(Len(s) - Len(p) + 1) : SubSeq(s, i, i + Len(p) - 1) = p

\* str.startswith.
StartsWith(s, p) == Len(p) <= Len(s) /\ SubSeq(s, 1, Len(p)) = p

\* str.endswith.
EndsWith(s, p) == Len(p) <= Len(s) /\ SubSeq(s, Len(s) - Len(p) + 1, Len(s)) = p

\* File names are sequences of name parts; these two parts are the ones
\* the locator looks for (lines 85 and 90).
XbrlExt == <<".xbrl">>
LabelMarker == <<"lab-ko.xml">>

\* A file of a directory and a subdirectory of the root.
File(name, content) == [name |-> name, content |-> content]
Dir(name, files) == [name |-> name, files |-> files]

\* Contents of files: one that cannot be opened or decoded, an instance
\* document with its elements, a label linkbase with its labelLink groups
\* (wellformed = FALSE: the text is not well-formed XML and links are the
\* groups a recovering parser still builds).
Unreadable == [kind |-> "unreadable"]
XbrlDoc(elements) == [kind |-> "xbrl", elements |-> elements]
LabelDoc(wellformed, links) ==
    [kind |-> "label", wellformed |-> wellformed, links |-> links]

\* Everything outside the parser.
OutsideParser ==
    UNCHANGED <<dbVars, pc, callVars, result, poolVars, histVars, svcVars>>

\* Lines 45-46: find_xbrl_files is called for identifier cc with the root
\* holding the subdirectories dirs.
FindBegin(dirs, cc) ==
    /\ fpc = "idle"
    /\ available_dirs' = dirs
    /\ code' = cc
    /\ fpc' = "prefix"
    /\ scan' = 1
    /\ corp_dir' = 0
    /\ findOut' = NoFind
    /\ extracted_tags' = <<>>
    /\ label_mapping' = <<>>
    /\ frame' = NoFrame
    /\ parseExc' = "none"
    /\ UNCHANGED ncall
    /\ OutsideParser

FindUnchanged ==
    /\ UNCHANGED <<available_dirs, code, extracted_tags, label_mapping, frame,
                   parseExc, ncall>>
    /\ OutsideParser

\* Lines 55-62: the first loop, one directory per step.
FindPrefixScan ==
    /\ fpc = "prefix"
    /\ IF scan > Len(available_dirs)
       THEN /\ fpc' = "substr"
            /\ scan' = 1
            /\ UNCHANGED corp_dir
       ELSE IF StartsWith(available_dirs[scan].name, code)
       THEN /\ corp_dir' = scan
            /\ fpc' = "list"
            /\ UNCHANGED scan
       ELSE /\ scan' = scan + 1
            /\ UNCHANGED <<fpc, corp_dir>>
    /\ UNCHANGED findOut
    /\ FindUnchanged

\* Lines 64-68: the second loop, entered when the first chose nothing.
FindSubstrScan ==
    /\ fpc = "substr"
    /\ IF scan > Len(available_dirs)
       THEN /\ fpc' = "last"
            /\ UNCHANGED <<scan, corp_dir>>
       ELSE IF Contains(available_dirs[scan].name, code)
       THEN /\ corp_dir' = scan
            /\ fpc' = "list"
            /\ UNCHANGED scan
       ELSE /\ scan' = scan + 1
            /\ UNCHANGED <<fpc, corp_dir>>
    /\ UNCHANGED findOut
    /\ FindUnchanged

\* Fault: the first directory is taken for the last.
LastDirFirst(dirs) == 1

\* Line 72: available_dirs[-1].
LastDir(dirs) == Len(dirs)

\* Lines 71-78: the last directory of the listing, or FileNotFoundError
\* when the listing is empty.
FindLast ==
    /\ fpc = "last"
    /\ IF available_dirs # <<>>
       THEN /\ corp_dir' = LastDir(available_dirs)
            /\ fpc' = "list"
            /\ UNCHANGED findOut
       ELSE /\ findOut' = FindRaised("FileNotFoundError")
            /\ fpc' = "found"
            /\ UNCHANGED corp_dir
    /\ UNCHANGED scan
    /\ FindUnchanged

\* Fault: every file counts as an instance document.
XbrlFilesAll(files) == files

\* Line 85: the files whose name ends in .xbrl; line 90: those whose name
\* has the marker.
XbrlFiles(files) == SelectSeq(files, LAMBDA f : EndsWith(f.name, XbrlExt))
LabelFiles(files) == SelectSeq(files, LAMBDA f : Contains(f.name, LabelMarker))

\* Lines 81-87: the chosen directory is listed; FileNotFoundError when it
\* has no instance document.
FindListFiles ==
    /\ fpc = "list"
    /\ IF XbrlFiles(available_dirs[corp_dir].files) = <<>>
       THEN /\ findOut' = FindRaised("FileNotFoundError")
            /\ fpc' = "found"
       ELSE /\ fpc' = "load"
            /\ UNCHANGED findOut
    /\ UNCHANGED <<scan, corp_dir>>
    /\ FindUnchanged

\* Fault: a label file that cannot be read is passed on as a document.
LabelSoupKept(label_files, rejected) ==
    IF label_files = <<>> THEN NoDoc ELSE LabelDoc(TRUE, <<>>)

\* Lines 96-106: the first label file is read and parsed. Text that is not
\* well-formed is either rejected with an exception (rejected) or parsed
\* into what could be recovered; a failure of any kind yields None.
LabelSoup(label_files, rejected) ==
    IF label_files = <<>> THEN NoDoc
    ELSE LET c == label_files[1].content
         IN  IF c.kind # "label" THEN NoDoc
             ELSE IF ~c.wellformed /\ rejected THEN NoDoc
             ELSE c

\* Lines 89-129: the label file and the instance document are loaded;
\* ValueError when the instance document cannot be read.
FindLoad(rejected) ==
    /\ fpc = "load"
    /\ LET files == available_dirs[corp_dir].files
           xbrl == XbrlFiles(files)[1]
           label_soup == LabelSoup(LabelFiles(files), rejected)
           label_path == IF label_soup = NoDoc THEN <<>> ELSE LabelFiles(files)[1].name
       IN  findOut' = IF xbrl.content.kind # "xbrl"
                      THEN FindRaised("ValueError")
                      ELSE FindReturned(xbrl.name, label_path, xbrl.content, label_soup)
    /\ fpc' = "found"
    /\ UNCHANGED <<scan, corp_dir>>
    /\ FindUnchanged

\* The listings of the locator's storage root: directories whose names
\* start with the identifier 12, contain it, or neither, each with no file,
\* an instance document, or a file that only has .xbrl inside its name.
FindCodes == { <<"1", "2">>, <<"9">> }
DirNames == { <<"1", "2", "a">>, <<"1", "2", "b">>, <<"a", "1", "2">>, <<"1", "a", "2">> }
FindFiles ==
    { <<>>,
      <<File(<<"r", ".xbrl">>, XbrlDoc(<<>>))>>,
      <<File(<<"r", ".xbrl", ".bak">>, XbrlDoc(<<>>)), File(<<"r", "lab-ko.xml">>, Unreadable)>>,
      <<File(<<"q", ".xbrl">>, Unreadable)>> }
Listings ==
    { l \in SeqsUpTo({ Dir(n, f) : n \in DirNames, f \in FindFiles }, MaxDirs) :
        \A i, j \in 1..Len(l) : i # j => l[i].name # l[j].name }

\* One call of find_xbrl_files, on any listing and identifier.
NextFind ==
    \/ \E dirs \in Listings, cc \in FindCodes : FindBegin(dirs, cc)
    \/ FindPrefixScan
    \/ FindSubstrScan
    \/ FindLast
    \/ FindListFiles
    \/ \E rejected \in BOOLEAN : FindLoad(rejected)

SpecFind == Init /\ [][NextFind]_vars

\* ------------------------------------------------ the value normalizer

\* Most segments a generated context-reference is made of.
MaxSegs == 3

\* What a normalizer function ends with: a text, or an exception.
Ok(text) == [kind |-> "ok", text |-> text]
Raised(exc) == [kind |-> "raised", exc |-> exc]

IsDigits(s) == \A i \in 1..Len(s) : s[i] \in Digits

\* Fault: the bare pattern is tried first.
YearPatternsBareFirst ==
    << <<>>, <<"F", "Y">>, <<"P", "F", "Y">>, <<"B", "P", "F", "Y">>, <<"C", "F", "Y">> >>

\* Lines 329-335 of xbrl_parser.py: the prefixes of the year patterns, in
\* the order they are tried; the last pattern is four digits on their own.
year_patterns ==
    << <<"F", "Y">>, <<"P", "F", "Y">>, <<"B", "P", "F", "Y">>, <<"C", "F", "Y">>, <<>> >>

\* The positions where prefix followed by four digits occurs in s.
MatchesOf(s, prefix) ==
    { i \in 1..Len(s) :
        /\ i + Len(prefix) + 3 <= Len(s)
        /\ SubSeq(s, i, i + Len(prefix) - 1) = prefix
        /\ IsDigits(SubSeq(s, i + Len(prefix), i + Len(prefix) + 3)) }

\* re.search: group 1 of the leftmost match.
SearchYear(s, prefix) ==
    LET i == CHOOSE m \in MatchesOf(s, prefix) : \A n \in MatchesOf(s, prefix) : m <= n
    IN  SubSeq(s, i + Len(prefix), i + Len(prefix) + 3)

NotAvailable == <<"N", "/", "A">>

\* Lines 337-344: the first pattern that matches decides.
RECURSIVE FirstMatch(_, _)
FirstMatch(s, patterns) ==
    IF patterns = <<>> THEN NotAvailable
    ELSE IF MatchesOf(s, Head(patterns)) # {} THEN SearchYear(s, Head(patterns))
    ELSE FirstMatch(s, Tail(patterns))

\* Lines 317-348.
extract_year_from_context(context_ref) == FirstMatch(context_ref, year_patterns)

\* int() of a text: an optional sign and digits, else ValueError.
IntText(s) ==
    LET signed == s # <<>> /\ Head(s) \in {"-", "+"}
        body == IF signed THEN Tail(s) ELSE s
    IN  IF body # <<>> /\ IsDigits(body)
        THEN [kind |-> "int", neg |-> (signed /\ Head(s) = "-" /\ ParseNat(body) > 0),
              n |-> ParseNat(body)]
        ELSE [kind |-> "error"]

\* The magnitude words of lines 368-377, romanised: cheonwon for 10^3,
\* manwon for 10^4, baengmanwon for 10^6, eogwon for 10^8, won otherwise.
MagnitudeWord(d) ==
    IF d.kind = "int" /\ d.neg /\ d.n = 3 THEN "cheonwon"
    ELSE IF d.kind = "int" /\ d.neg /\ d.n = 4 THEN "manwon"
    ELSE IF d.kind = "int" /\ d.neg /\ d.n = 6 THEN "baengmanwon"
    ELSE IF d.kind = "int" /\ d.neg /\ d.n = 8 THEN "eogwon"
    ELSE "won"

\* Lines 361-382: the label is the word, a blank and the unit code; with
\* no decimals or no unit code the test of line 362 returns the base word.
decimals_to_unit_label(decimals, unit) ==
    IF decimals = <<>> \/ unit = ""
    THEN (IF unit # "" THEN <<"won", " ", unit>> ELSE <<"won">>)
    ELSE <<MagnitudeWord(IntText(decimals)), " ", unit>>

\* float() of a text: a signed integer (kept as its digits), an infinity,
\* a nan, or ValueError.
RECURSIVE StripZeros(_)
StripZeros(s) == IF Len(s) > 1 /\ Head(s) = "0" THEN StripZeros(Tail(s)) ELSE s

ParseFloat(s) ==
    LET signed == s # <<>> /\ Head(s) \in {"-", "+"}
        neg == signed /\ Head(s) = "-"
        body == IF signed THEN Tail(s) ELSE s
    IN  IF body # <<>> /\ IsDigits(body)
        THEN [kind |-> "fin", neg |-> neg, digits |-> StripZeros(body)]
        ELSE IF body = <<"i", "n", "f">> THEN [kind |-> "inf", neg |-> neg, digits |-> <<>>]
        ELSE IF body = <<"n", "a", "n">> THEN [kind |-> "nan", neg |-> neg, digits |-> <<>>]
        ELSE [kind |-> "error", neg |-> FALSE, digits |-> <<>>]

\* The ',' of the format specification: a comma before every third digit.
RECURSIVE Group3(_)
Group3(s) ==
    IF Len(s) <= 3 THEN s
    ELSE Group3(SubSeq(s, 1, Len(s) - 3)) \o <<",">> \o SubSeq(s, Len(s) - 2, Len(s))

\* Largest k for which 10**k converts to a float (line 408).
MaxPow10 == 308

\* Line 408: num_value / 10**k, then int(): the last k digits go. The float
\* holds the integer and the quotient's integer part exactly for the
\* magnitudes below 2**53 the model draws.
DividePow10(f, k) ==
    IF f.kind # "fin" THEN f
    ELSE [f EXCEPT !.digits = IF k >= Len(f.digits) THEN <<"0">>
                              ELSE SubSeq(f.digits, 1, Len(f.digits) - k)]

\* Line 416: f"{int(num_value):,}". int() of an infinity raises
\* OverflowError; int() of a nan raises ValueError, which line 417 turns
\* into "0".
IntegerText(f) ==
    IF f.kind = "inf" THEN Raised("OverflowError")
    ELSE IF f.kind = "nan" THEN Ok(<<"0">>)
    ELSE IF f.digits = <<"0">> THEN Ok(<<"0">>)
    ELSE Ok((IF f.neg THEN <<"-">> ELSE <<>>) \o Group3(f.digits))

\* Line 413: f"{num_value:,.{n}f}".
FixedText(f, n) ==
    LET sign == IF f.neg THEN <<"-">> ELSE <<>>
    IN  IF f.kind = "inf" THEN Ok(sign \o <<"i", "n", "f">>)
        ELSE IF f.kind = "nan" THEN Ok(<<"n", "a", "n">>)
        ELSE Ok(sign \o Group3(f.digits)
                \o (IF n = 0 THEN <<>> ELSE <<".">> \o [i \in 1..n |-> "0"]))

\* Fault: the ValueError of float() is not handled.
FormatUnhandled(value, decimals) == Raised("ValueError")

\* Lines 395-419.
format_number_with_decimals(value, decimals) ==
    LET f == ParseFloat(value)
        d == IF decimals = <<>> THEN [kind |-> "none"] ELSE IntText(decimals)
    IN  IF f.kind = "error" THEN Ok(<<"0">>)
        ELSE IF d.kind # "int" THEN IntegerText(f)
        ELSE IF ~d.neg THEN FixedText(f, d.n)
        ELSE IF d.n > MaxPow10 THEN Raised("OverflowError")
        ELSE IntegerText(DividePow10(f, d.n))

\* The normalizer functions are called on their own.
CallYear(context_ref) ==
    /\ ncall = NoCall
    /\ ncall' = [fn |-> "year", context_ref |-> context_ref,
                 out |-> Ok(extract_year_from_context(context_ref))]
    /\ UNCHANGED <<available_dirs, code, fpc, scan, corp_dir, findOut, extracted_tags,
                   label_mapping, frame, parseExc>>
    /\ OutsideParser

CallUnit(decimals, unit) ==
    /\ ncall = NoCall
    /\ ncall' = [fn |-> "unit", decimals |-> decimals, unit |-> unit,
                 out |-> Ok(decimals_to_unit_label(decimals, unit))]
    /\ UNCHANGED <<available_dirs, code, fpc, scan, corp_dir, findOut, extracted_tags,
                   label_mapping, frame, parseExc>>
    /\ OutsideParser

CallFormat(value, decimals) ==
    /\ ncall = NoCall
    /\ ncall' = [fn |-> "format", value |-> value, decimals |-> decimals,
                 out |-> format_number_with_decimals(value, decimals)]
    /\ UNCHANGED <<available_dirs, code, fpc, scan, corp_dir, findOut, extracted_tags,
                   label_mapping, frame, parseExc>>
    /\ OutsideParser

\* Lines 458-469: the value and the unit of one fact are normalized.
CallNormalize(value, decimals, unit) ==
    /\ ncall = NoCall
    /\ ncall' = [fn |-> "fact", value |-> value, decimals |-> decimals, unit |-> unit,
                 out |-> format_number_with_decimals(value, decimals),
                 label |-> Ok(decimals_to_unit_label(decimals, unit))]
    /\ UNCHANGED <<available_dirs, code, fpc, scan, corp_dir, findOut, extracted_tags,
                   label_mapping, frame, parseExc>>
    /\ OutsideParser

\* The texts the normalizer is tried on.
RECURSIVE Flatten(_)
Flatten(ss) == IF ss = <<>> THEN <<>> ELSE Head(ss) \o Flatten(Tail(ss))

Segments ==
    { <<"F", "Y">>, <<"P", "F", "Y">>, <<"B", "P", "F", "Y">>, <<"C", "F", "Y">>,
      <<"2", "0", "2", "3">>, <<"2", "0", "2", "4">>, <<"2", "0">>, <<"Q", "1">>,
      <<"e">>, <<"SeparateMember">> }
ContextRefs == { Flatten(ss) : ss \in SeqsUpTo(Segments, MaxSegs) }

ValueTexts ==
    { <<"6", "8", "5", "4", "8", "4", "4", "2", "0", "0", "0", "0", "0", "0">>,
      <<"1", "9", "9", "9">>, <<"-", "1", "9", "9", "9">>, <<"5">>, <<"-", "5">>, <<"0">>,
      <<"x">>, <<"1", ",", "2">>, <<>>, <<"i", "n", "f">>, <<"-", "i", "n", "f">>,
      <<"n", "a", "n">> }
DecimalsTexts ==
    { <<>>, <<"-", "3">>, <<"-", "4">>, <<"-", "6">>, <<"-", "8">>, <<"-", "1">>,
      <<"0">>, <<"2">>, <<"-", "3", "0", "8">>, <<"-", "3", "0", "9">>, <<"a">>,
      <<"-", "6", ".", "0">> }
UnitCodes == {"", "KRW", "USD"}

NextNorm ==
    \/ \E context_ref \in ContextRefs : CallYear(context_ref)
    \/ \E decimals \in DecimalsTexts, unit \in UnitCodes : CallUnit(decimals, unit)
    \/ \E value \in ValueTexts, decimals \in DecimalsTexts : CallFormat(value, decimals)
    \/ \E value \in ValueTexts, decimals \in DecimalsTexts, unit \in UnitCodes :
          CallNormalize(value, decimals, unit)

SpecNorm == Init /\ [][NextNorm]_vars

\* ------------------------------------------------ extract_xbrl_to_dataframe

\* Most elements of a generated instance document.
MaxElems == 2

\* Lines 218-259: the allow-list, in its order. A qualified name is the
\* sequence of its prefix, the colon and its local name.
allowed_tags ==
    <<
       <<"ifrs-full", ":", "CurrentAssets">>,
       <<"ifrs-full", ":", "CashAndCashEquivalents">>,
       <<"ifrs-full", ":", "ShorttermDepositsNotClassifiedAsCashEquivalents">>,
       <<"ifrs-full", ":", "CurrentTradeReceivables">>,
       <<"dart", ":", "ShortTermOtherReceivablesNet">>,
       <<"ifrs-full", ":", "CurrentPrepaidExpenses">>,
       <<"ifrs-full", ":", "Inventories">>,
       <<"ifrs-full", ":", "OtherCurrentAssets">>,
       <<"ifrs-full", ":", "NoncurrentAssets">>,
       <<"ifrs-full", ":", "NoncurrentFinancialAssetsMeasuredAtFairValueThroughOtherComprehensiveIncome">>,
       <<"ifrs-full", ":", "NoncurrentFinancialAssetsAtFairValueThroughProfitOrLoss">>,
       <<"ifrs-full", ":", "InvestmentsInSubsidiariesJointVenturesAndAssociates">>,
       <<"ifrs-full", ":", "NoncurrentRecognisedAssetsDefinedBenefitPlan">>,
       <<"ifrs-full", ":", "DeferredTaxAssets">>,
       <<"ifrs-full", ":", "OtherNoncurrentAssets">>,
       <<"ifrs-full", ":", "Assets">>,
       <<"ifrs-full", ":", "CurrentLiabilities">>,
       <<"ifrs-full", ":", "TradeAndOtherCurrentPayablesToTradeSuppliers">>,
       <<"ifrs-full", ":", "OtherCurrentPayables">>,
       <<"ifrs-full", ":", "CurrentAdvances">>,
       <<"dart", ":", "ShortTermWithholdings">>,
       <<"ifrs-full", ":", "AccrualsClassifiedAsCurrent">>,
       <<"ifrs-full", ":", "CurrentTaxLiabilities">>,
       <<"ifrs-full", ":", "CurrentPortionOfLongtermBorrowings">>,
       <<"ifrs-full", ":", "CurrentProvisions">>,
       <<"ifrs-full", ":", "OtherCurrentLiabilities">>,
       <<"ifrs-full", ":", "NoncurrentLiabilities">>,
       <<"ifrs-full", ":", "NoncurrentPortionOfNoncurrentBondsIssued">>,
       <<"ifrs-full", ":", "NoncurrentPortionOfNoncurrentLoansReceived">>,
       <<"ifrs-full", ":", "OtherNoncurrentPayables">>,
       <<"ifrs-full", ":", "NoncurrentProvisions">>,
       <<"ifrs-full", ":", "OtherNoncurrentLiabilities">>,
       <<"ifrs-full", ":", "Liabilities">>,
       <<"ifrs-full", ":", "IssuedCapital">>,
       <<"dart", ":", "IssuedCapitalOfPreferredStock">>,
       <<"dart", ":", "IssuedCapitalOfCommonStock">>,
       <<"ifrs-full", ":", "SharePremium">>,
       <<"ifrs-full", ":", "RetainedEarnings">>,
       <<"dart", ":", "ElementsOfOtherStockholdersEquity">>,
       <<"ifrs-full", ":", "EquityAndLiabilities">>
    >>

\* An element of the instance document: its qualified name, its text and
\* its attributes contextRef, unitRef and decimals (empty when absent).
Element(name, text, contextRef, unitRef, decimals) ==
    [name |-> name, text |-> text, contextRef |-> contextRef, unitRef |-> unitRef,
     decimals |-> decimals]

\* str.strip.
Whitespace == {" ", "\n"}
RECURSIVE LStrip(_)
LStrip(s) == IF s # <<>> /\ Head(s) \in Whitespace THEN LStrip(Tail(s)) ELSE s
RECURSIVE RStrip(_)
RStrip(s) ==
    IF s # <<>> /\ s[Len(s)] \in Whitespace THEN RStrip(SubSeq(s, 1, Len(s) - 1)) ELSE s
Strip(s) == LStrip(RStrip(s))

\* s.split(sep, 1)[1] when sep is in s, else s (lines 276-279, 193-194).
IndexOf(s, sep) == CHOOSE i \in 1..Len(s) : s[i] = sep /\ \A j \in 1..(i - 1) : s[j] # sep
AfterFirst(s, sep) ==
    IF \E i \in 1..Len(s) : s[i] = sep THEN SubSeq(s, IndexOf(s, sep) + 1, Len(s)) ELSE s

SeparateMember == <<"SeparateMember">>

\* Lines 276-307: the fact of one matching element. The keys of the
\* dictionary are item (the local name), value, contextRef, unit, decimals.
Fact(tag) ==
    [item |-> AfterFirst(tag.name, ":"), value |-> Strip(tag.text),
     contextRef |-> tag.contextRef, unit |-> tag.unitRef, decimals |-> tag.decimals]

\* Fault: the marker is not asked for.
KeptAny(tag) == Strip(tag.text) # <<>> /\ tag.contextRef # <<>>

\* Lines 288-299: the element is kept when its context-reference has the
\* marker and its stripped text and its context-reference are not empty.
Kept(tag) ==
    /\ Contains(tag.contextRef, SeparateMember)
    /\ Strip(tag.text) # <<>>
    /\ tag.contextRef # <<>>

\* Lines 269-307: for every name of the allow-list in turn, the elements of
\* that name in document order.
RECURSIVE TagsFor(_, _)
TagsFor(elements, names) ==
    IF names = <<>> THEN <<>>
    ELSE LET matching_tags == SelectSeq(elements, LAMBDA e : e.name = Head(names))
             kept == SelectSeq(matching_tags, Kept)
         IN  [i \in 1..Len(kept) |-> Fact(kept[i])] \o TagsFor(elements, Tail(names))

\* Lines 207-315.
get_xbrl_tags(xbrl_soup) == TagsFor(xbrl_soup.elements, allowed_tags)

\* The elements of a labelLink group: loc (xlink:href, xlink:label), label
\* (xlink:label, xml:lang, xlink:role, text) and labelArc (xlink:from,
\* xlink:to).
Loc(href, label) == [href |-> href, label |-> label]
Label(label, lang, role, text) == [label |-> label, lang |-> lang, role |-> role, text |-> text]
LabelArc(from, to) == [from |-> from, to |-> to]
LabelLink(locs, labels, arcs) == [locs |-> locs, labels |-> labels, arcs |-> arcs]

\* A dictionary is the sequence of its entries in insertion order.
Entry(key, val) == [key |-> key, val |-> val]
HasKey(d, key) == \E i \in 1..Len(d) : d[i].key = key

\* Fault: an entry once written is kept.
DictPutKeep(d, key, val) == IF HasKey(d, key) THEN d ELSE Append(d, Entry(key, val))

DictPut(d, key, val) ==
    IF HasKey(d, key)
    THEN [i \in 1..Len(d) |-> IF d[i].key = key THEN Entry(key, val) ELSE d[i]]
    ELSE Append(d, Entry(key, val))
DictGet(d, key, default) ==
    IF HasKey(d, key) THEN d[CHOOSE i \in 1..Len(d) : d[i].key = key].val ELSE default

\* Lines 165-172: the loc elements whose href starts with '#', by label.
RECURSIVE LocDict(_, _)
LocDict(locs, d) ==
    IF locs = <<>> THEN d
    ELSE LocDict(Tail(locs),
                 IF StartsWith(Head(locs).href, <<"#">>)
                 THEN DictPut(d, Head(locs).label, Tail(Head(locs).href))
                 ELSE d)

\* str.lower on the parts of a role.
Lower(role) == [i \in 1..Len(role) |-> IF role[i] = "Standard" THEN "standard" ELSE role[i]]

\* Line 183.
RoleAccepted(lang, role) ==
    lang = "ko" /\ (Contains(role, <<"label">>) \/ Contains(Lower(role), <<"standard">>))

\* Lines 189-198: the arcs that point to the label, in document order.
RECURSIVE PutArcs(_, _, _, _)
PutArcs(arcs, loc_dict, label_text, mapping) ==
    IF arcs = <<>> THEN mapping
    ELSE PutArcs(Tail(arcs), loc_dict, label_text,
                 IF HasKey(loc_dict, Head(arcs).from)
                 THEN DictPut(mapping, AfterFirst(DictGet(loc_dict, Head(arcs).from, <<>>), "_"),
                              label_text)
                 ELSE mapping)

\* Lines 177-198: the label elements of one group.
RECURSIVE PutLabels(_, _, _, _)
PutLabels(labels, arcs, loc_dict, mapping) ==
    IF labels = <<>> THEN mapping
    ELSE LET label_elem == Head(labels)
             label_arcs == SelectSeq(arcs, LAMBDA a : a.to = label_elem.label)
         IN  PutLabels(Tail(labels), arcs, loc_dict,
                       IF RoleAccepted(label_elem.lang, label_elem.role)
                       THEN PutArcs(label_arcs, loc_dict, Strip(label_elem.text), mapping)
                       ELSE mapping)

\* Lines 160-198: the groups in document order.
RECURSIVE PutLinks(_, _)
PutLinks(label_links, mapping) ==
    IF label_links = <<>> THEN mapping
    ELSE PutLinks(Tail(label_links),
                  PutLabels(Head(label_links).labels, Head(label_links).arcs,
                            LocDict(Head(label_links).locs, <<>>), mapping))

\* Lines 135-205: no document or no group gives the empty dictionary.
get_label_ko_mapping(label_soup) ==
    IF label_soup = NoDoc THEN <<>>
    ELSE PutLinks(label_soup.links, <<>>)

\* Fault: the caption is never looked up.
RefinedRowBare(tag, mapping, corp_code) ==
    [corp_code |-> corp_code,
     item |-> tag.item,
     value |-> format_number_with_decimals(tag.value, tag.decimals).text,
     year |-> extract_year_from_context(tag.contextRef),
     unit |-> decimals_to_unit_label(tag.decimals, tag.unit)]

\* One row of the returned frame; the columns are the corporation code,
\* the caption, the formatted value, the year and the unit label.
RefinedRow(tag, mapping, corp_code) ==
    [corp_code |-> corp_code,
     item |-> DictGet(mapping, tag.item, tag.item),
     value |-> format_number_with_decimals(tag.value, tag.decimals).text,
     year |-> extract_year_from_context(tag.contextRef),
     unit |-> decimals_to_unit_label(tag.decimals, tag.unit)]

\* The facts whose value cannot be formatted without an exception.
Failing(tags) ==
    { i \in 1..Len(tags) :
        format_number_with_decimals(tags[i].value, tags[i].decimals).kind = "raised" }

\* Lines 438-445 and 496-498: the files are located and the facts
\* extracted; an exception of find_xbrl_files, or no fact, ends the call
\* with an empty frame.
ParseTags ==
    /\ fpc = "found"
    /\ IF findOut.kind = "raised"
       THEN /\ parseExc' = findOut.exc
            /\ frame' = DataFrame(<<>>)
            /\ fpc' = "done"
            /\ UNCHANGED extracted_tags
       ELSE /\ extracted_tags' = get_xbrl_tags(findOut.xbrl_soup)
            /\ IF extracted_tags' = <<>>
               THEN frame' = DataFrame(<<>>) /\ fpc' = "done"
               ELSE fpc' = "tags" /\ UNCHANGED frame
            /\ UNCHANGED parseExc
    /\ UNCHANGED <<available_dirs, code, scan, corp_dir, findOut, label_mapping, ncall>>
    /\ OutsideParser

\* Line 448.
ParseLabels ==
    /\ fpc = "tags"
    /\ label_mapping' = get_label_ko_mapping(findOut.label_soup)
    /\ fpc' = "labels"
    /\ UNCHANGED <<available_dirs, code, scan, corp_dir, findOut, extracted_tags, frame,
                   parseExc, ncall>>
    /\ OutsideParser

\* Lines 453-498: the rows are built fact by fact; an exception of the
\* normalizer leaves the loop and the handler of line 496 returns an empty
\* frame.
ParseAssemble ==
    /\ fpc = "labels"
    /\ IF Failing(extracted_tags) # {}
       THEN LET i == CHOOSE m \in Failing(extracted_tags) :
                        \A n \in Failing(extracted_tags) : m <= n
                tag == extracted_tags[i]
            IN  /\ parseExc' = format_number_with_decimals(tag.value, tag.decimals).exc
                /\ frame' = DataFrame(<<>>)
       ELSE /\ frame' = DataFrame([i \in 1..Len(extracted_tags) |->
                                     RefinedRow(extracted_tags[i], label_mapping, code)])
            /\ UNCHANGED parseExc
    /\ fpc' = "done"
    /\ UNCHANGED <<available_dirs, code, scan, corp_dir, findOut, extracted_tags,
                   label_mapping, ncall>>
    /\ OutsideParser

\* The instance documents and label linkbases the parse is tried on.
MarkedContext == <<"C", "F", "Y", "2", "0", "2", "3", "e", "SeparateMember">>
CurrentAssets == <<"ifrs-full", ":", "CurrentAssets">>
Elements ==
    { Element(CurrentAssets, <<"5", "0", "0", "0">>, MarkedContext, "KRW", <<"-", "3">>),
      Element(<<"ifrs-full", ":", "Revenue">>, <<"7">>, MarkedContext, "KRW", <<"-", "3">>),
      Element(CurrentAssets, <<"8">>, <<"C", "F", "Y", "2", "0", "2", "3", "e">>, "KRW", <<>>),
      Element(<<"ifrs-full", ":", "Assets">>, <<" ">>, MarkedContext, "KRW", <<>>),
      Element(<<"ifrs-full", ":", "Assets">>, <<>>, MarkedContext, "KRW", <<>>),
      Element(<<"ifrs-full", ":", "Inventories">>, <<"i", "n", "f">>, MarkedContext, "KRW", <<>>),
      Element(<<"ifrs-full", ":", "Liabilities">>, <<"x">>, MarkedContext, "", <<"a">>),
      Element(<<"dart", ":", "ElementsOfOtherStockholdersEquity">>, <<"\n", "1", "2">>,
              <<"SeparateMember", "2", "0", "2", "4">>, "KRW", <<"2">>) }
Documents == { XbrlDoc(elements) : elements \in SeqsUpTo(Elements, MaxElems) }

KoLink ==
    LabelLink(<<Loc(<<"#", "ifrs-full", "_", "CurrentAssets">>, "loc1"),
                Loc(<<"x.xsd", "#", "ifrs-full", "_", "Inventories">>, "loc2")>>,
              <<Label("lab1", "ko", <<"role/", "label">>, <<"yudongjasan">>),
                Label("lab2", "ko", <<"role/", "label">>, <<"jabon">>),
                Label("lab3", "en", <<"role/", "label">>, <<"Current assets">>)>>,
              <<LabelArc("loc1", "lab1"), LabelArc("loc2", "lab2"), LabelArc("loc1", "lab3")>>)
LabelContents ==
    { Unreadable, LabelDoc(TRUE, <<KoLink>>), LabelDoc(TRUE, <<>>),
      LabelDoc(FALSE, <<KoLink>>), LabelDoc(FALSE, <<>>) }
LabelChoices ==
    { <<>> } \cup { <<File(<<"r", "_", "lab-ko.xml">>, c)>> : c \in LabelContents }

ParseListings ==
    { <<Dir(<<"1", "2", "a">>, <<File(<<"r", ".xbrl">>, d)>> \o l)>> :
         d \in Documents, l \in LabelChoices }
    \cup { <<Dir(n, <<File(<<"r", ".xbrl">>, XbrlDoc(<<>>))>>)>> : n \in { <<"a", "1", "2">>, <<"b">> } }
    \cup { <<>>, <<Dir(<<"1", "2">>, <<File(<<"q", ".xbrl">>, Unreadable)>>)>> }

\* One call of extract_xbrl_to_dataframe("12").
NextParser ==
    \/ \E dirs \in ParseListings : FindBegin(dirs, <<"1", "2">>)
    \/ FindPrefixScan
    \/ FindSubstrScan
    \/ FindLast
    \/ FindListFiles
    \/ \E rejected \in BOOLEAN : FindLoad(rejected)
    \/ ParseTags
    \/ ParseLabels
    \/ ParseAssemble

SpecParser == Init /\ [][NextParser]_vars

\* ------------------------------------------------ get_label_ko_mapping alone

\* Most label elements, and most arcs, of a generated labelLink group.
MaxParts == 2

\* get_label_ko_mapping is called on a parsed label linkbase.
CallLabels(label_soup) ==
    /\ ncall = NoCall
    /\ ncall' = [fn |-> "labels", label_soup |-> label_soup,
                 out |-> get_label_ko_mapping(label_soup)]
    /\ UNCHANGED <<available_dirs, code, fpc, scan, corp_dir, findOut, extracted_tags,
                   label_mapping, frame, parseExc>>
    /\ OutsideParser

\* The linkbases the mapping is tried on. The locators refer to a tag by a
\* bare fragment, by a document URI with a fragment, or to no fragment; the
\* label elements are Korean or English, with the standard label role, a
\* role named Standard, or the documentation role.
FragmentHref == <<"#", "ifrs-full", "_", "CurrentAssets">>
DocumentHref == <<"x.xsd", "#", "ifrs-full", "_", "CurrentAssets">>
LocLists ==
    { <<Loc(FragmentHref, "loc1")>>,
      <<Loc(DocumentHref, "loc1")>>,
      <<Loc(FragmentHref, "loc1"), Loc(<<"#", "Assets">>, "loc2")>>,
      <<Loc(<<"x.xsd">>, "loc1"), Loc(FragmentHref, "loc2")>> }
LabelElems ==
    { Label("lab1", "ko", <<"role/", "label">>, <<"A">>),
      Label("lab2", "ko", <<"role/", "label">>, <<" ", "B">>),
      Label("lab2", "en", <<"role/", "label">>, <<"E">>),
      Label("lab1", "ko", <<"role/", "documentation">>, <<"D">>),
      Label("lab3", "ko", <<"role/", "Standard">>, <<"S">>) }
ArcElems ==
    { LabelArc("loc1", "lab1"), LabelArc("loc1", "lab2"), LabelArc("loc2", "lab1"),
      LabelArc("loc1", "lab3") }
Groups ==
    { LabelLink(locs, labels, arcs) :
         locs \in LocLists, labels \in SeqsUpTo(LabelElems, MaxParts),
         arcs \in SeqsUpTo(ArcElems, MaxParts) }
FirstGroup ==
    LabelLink(<<Loc(FragmentHref, "loc1")>>, <<Label("lab1", "ko", <<"role/", "label">>, <<"A">>)>>,
              <<LabelArc("loc1", "lab1")>>)
SecondGroup ==
    LabelLink(<<Loc(FragmentHref, "loc9")>>, <<Label("lab9", "ko", <<"role/", "label">>, <<"Z">>)>>,
              <<LabelArc("loc9", "lab9")>>)
Linkbases ==
    { LabelDoc(TRUE, <<g>>) : g \in Groups }
    \cup { LabelDoc(TRUE, <<FirstGroup, SecondGroup>>), LabelDoc(TRUE, <<SecondGroup, FirstGroup>>),
           LabelDoc(TRUE, <<>>), NoDoc }

NextLabels == \E label_soup \in Linkbases : CallLabels(label_soup)

SpecLabels == Init /\ [][NextLabels]_vars

\* ------------------------------------------------------------------ claims

CountOf(s, x) == Cardinality({ j \in 1..Len(s) : s[j] = x })

\* The step is c's way out of a running call.
Completes(c) == Running(c) /\ pc'[c] = "done"

C2_ReplayIsIdempotent ==
    [][\A c \in Calls :
          /\ (Running(c) /\ replay[c]) => rows' = rows
          /\ (Completes(c) /\ replay[c]) =>
                /\ result'[c].inserted = 0
                /\ result'[c].success =>
                      /\ result'[c].after_count = result'[c].before_count
                      /\ result'[c].updated = Len(recs[c])]_vars

C2_Witness ==
    /\ pc[1] = "done" /\ replay[1]
    /\ result[1].success
    /\ result[1].updated = 2
    /\ rows # {}

\* C3: when a call commits, every key of its batch is stored once, with the
\* value and unit of the last record of that key; a record is counted as
\* inserted exactly when it is the first of its key and the key was not
\* stored before, and as updated otherwise.
C3_LastValueFirstInserted ==
    [][\A c \in Calls :
          (Completes(c) /\ result'[c].success /\ recs[c] # <<>>) =>
             /\ Len(outcomes[c]) = Len(recs[c])
             /\ result'[c].inserted = CountOf(outcomes[c], "ins")
             /\ result'[c].updated = CountOf(outcomes[c], "upd")
             /\ \A j \in 1..Len(recs[c]) :
                  LET k == Key(recs[c][j])
                      same == { i \in 1..Len(recs[c]) : Key(recs[c][i]) = k }
                      last == CHOOSE i \in same : \A h \in same : h <= i
                      first == \A h \in same : j <= h
                  IN  /\ (outcomes[c][j] = "ins") <=> (first /\ WithKey(rows, k) = {})
                      /\ Cardinality(WithKey(rows', k)) = 1
                      /\ \A r \in WithKey(rows', k) :
                            /\ r.value = recs[c][last].value
                            /\ r.unit = recs[c][last].unit]_vars

\* One batch carried the key twice with different values: the first record
\* was inserted, the second updated it.
C3_Witness ==
    /\ pc[1] = "done" /\ result[1].success
    /\ outcomes[1] = <<"ins", "upd">>
    /\ Key(recs[1][1]) = Key(recs[1][2])
    /\ recs[1][1].value # recs[1][2].value
    /\ \E r \in rows : r.value = recs[1][2].value /\ r.unit = recs[1][2].unit

C5_ConstraintPathAllOrNothing ==
    [][\A c \in Calls :
          /\ (Running(c) /\ ~Completes(c)) => rows' = rows
          /\ (Completes(c) /\ conOK[c] /\ ~result'[c].success) => rows' = rows]_vars

C5_Witness ==
    /\ pc[1] = "done" /\ conOK[1]
    /\ ~result[1].success
    /\ result[1].inserted > 0 /\ result[1].updated > 0

\* The stored version of the last of the first n records with record j's key.
Counted(c, j, n) ==
    LET same == { i \in 1..n : Key(recs[c][i]) = Key(recs[c][j]) }
    IN  recs[c][CHOOSE i \in same : \A h \in same : h <= i]

\* C6, as stated: after a failed call the writes it counted are stored.
C6_CountedWritesStored ==
    \A c \in Calls :
       (pc[c] = "done" /\ raisedExc[c] # "none") =>
          \A j \in 1..(result[c].inserted + result[c].updated) :
             \E r \in rows :
                /\ RowKey(r) = Key(recs[c][j])
                /\ r.value = Counted(c, j, result[c].inserted + result[c].updated).value
                /\ r.unit = Counted(c, j, result[c].inserted + result[c].updated).unit

\* C6, amended: a failed call reports the inserts and updates it counted
\* before the failure, and none of them is stored: on either path the
\* stored rows are those of before the call.
C6_CountsReportedNothingStored ==
    [][\A c \in Calls :
          (Completes(c) /\ raisedExc'[c] # "none") =>
             /\ ~result'[c].success
             /\ result'[c].inserted = ins[c]
             /\ result'[c].updated = upd[c]
             /\ rows' = rows
             /\ pend'[c] = {}]_vars

\* A fallback call failed after it had counted a write.
C6_Witness ==
    /\ pc[1] = "done" /\ ~conOK[1]
    /\ raisedExc[1] # "none"
    /\ ensureFailed[1] = "client"
    /\ result[1].inserted + result[1].updated > 0

\* C7, as stated: a call whose constraint could not be established, the
\* relation being absent or the check having failed at the server, ends
\* with success = true and every valid record counted.
C7_DegradesAndSucceeds ==
    \A c \in Calls :
       (pc[c] = "done" /\ ensureFailed[c] \in {"no_table", "server"}) =>
          /\ result[c].success
          /\ result[c].inserted + result[c].updated = Len(recs[c])

C9_PoolIsSingleton ==
    /\ poolsCreated <= 1
    /\ \A p, q \in Procs : (mypool[p] # 0 /\ mypool[q] # 0) => mypool[p] = mypool[q]

C11_DifferentEntitiesBothSucceed ==
    (pc[1] = "done" /\ pc[2] = "done" /\ tableExists) =>
       \A c \in Calls :
          /\ result[c].success
          /\ \A j \in 1..Len(recs[c]) :
                \E r \in rows : RowKey(r) = Key(recs[c][j]) /\ r.value = recs[c][j].value

\* The directory the priority rule names: the first whose name starts with
\* the identifier, else the first whose name contains it, else the last of
\* the listing (0 for an empty listing).
FirstOf(S) == CHOOSE i \in S : \A j \in S : i <= j
PriorityDir ==
    LET pre == { i \in 1..Len(available_dirs) : StartsWith(available_dirs[i].name, code) }
        sub == { i \in 1..Len(available_dirs) : Contains(available_dirs[i].name, code) }
    IN  IF pre # {} THEN FirstOf(pre)
        ELSE IF sub # {} THEN FirstOf(sub)
        ELSE Len(available_dirs)

\* C12: once find_xbrl_files has chosen, the chosen directory is the one
\* the priority rule names: never a substring match while a prefix match
\* exists, never the last directory while any match exists.
C12_DirectoryByPriority ==
    fpc \in {"list", "load", "found"} => corp_dir = PriorityDir

\* A directory that only contains the identifier comes first in the
\* listing, and the later directory that starts with it was chosen.
C12_Witness ==
    /\ fpc = "found"
    /\ corp_dir = 2
    /\ Contains(available_dirs[1].name, code)
    /\ ~StartsWith(available_dirs[1].name, code)
    /\ StartsWith(available_dirs[2].name, code)

\* C13: find_xbrl_files ends with FileNotFoundError exactly when the root
\* has no subdirectory or the directory named by the priority rule has no
\* file ending in .xbrl; no other directory is tried.
C13_NotFoundExactly ==
    fpc = "found" =>
       /\ (findOut.kind = "raised" /\ findOut.exc = "FileNotFoundError") <=>
             \/ available_dirs = <<>>
             \/ \A i \in 1..Len(available_dirs[PriorityDir].files) :
                   ~EndsWith(available_dirs[PriorityDir].files[i].name, XbrlExt)
       /\ corp_dir = PriorityDir

\* The chosen directory lacks an instance document while another directory
\* that starts with the identifier has one: FileNotFoundError all the same.
C13_Witness ==
    /\ fpc = "found"
    /\ findOut = FindRaised("FileNotFoundError")
    /\ corp_dir = 1
    /\ Len(available_dirs) >= 2
    /\ StartsWith(available_dirs[2].name, code)
    /\ XbrlFiles(available_dirs[2].files) # <<>>

\* The occurrences of a recognized year prefix directly followed by four
\* digits: the position of the digits and the digits.
RecognizedPrefixes == { <<"F", "Y">>, <<"P", "F", "Y">>, <<"B", "P", "F", "Y">>, <<"C", "F", "Y">> }
PrefixedYears(s) ==
    { <<i + Len(p), SubSeq(s, i + Len(p), i + Len(p) + 3)>> :
        <<i, p>> \in { m \in (1..Len(s)) \X RecognizedPrefixes :
                         /\ m[1] + Len(m[2]) + 3 <= Len(s)
                         /\ SubSeq(s, m[1], m[1] + Len(m[2]) - 1) = m[2]
                         /\ IsDigits(SubSeq(s, m[1] + Len(m[2]), m[1] + Len(m[2]) + 3)) } }
HasDigit(s) == \E i \in 1..Len(s) : s[i] \in Digits

\* C16: for a context-reference that contains FY, PFY, BPFY or CFY directly
\* followed by four digits, extract_year_from_context returns those four
\* digits (those of the leftmost such occurrence), whatever bare four-digit
\* run stands elsewhere; for a context-reference without any digit it
\* returns "N/A".
C16_PrefixedYearWins ==
    ncall.fn = "year" =>
        /\ PrefixedYears(ncall.context_ref) # {} =>
              \E y \in PrefixedYears(ncall.context_ref) :
                 /\ \A z \in PrefixedYears(ncall.context_ref) : y[1] <= z[1]
                 /\ ncall.out = Ok(y[2])
        /\ ~HasDigit(ncall.context_ref) => ncall.out = Ok(NotAvailable)

\* A bare 2024 stands before the prefixed FY2023, and 2023 is returned.
C16_Witness ==
    /\ ncall.fn = "year"
    /\ ncall.context_ref = <<"2", "0", "2", "4", "F", "Y", "2", "0", "2", "3">>
    /\ ncall.out = Ok(<<"2", "0", "2", "3">>)

\* The label the mapping of the magnitudes asks for: the word, then the
\* unit code when there is one.
LabelOf(word, unit) == IF unit = "" THEN <<word>> ELSE <<word, " ", unit>>
MagnitudeDecimals ==
    { <<"-", "3">>, <<"-", "4">>, <<"-", "6">>, <<"-", "8">> }
WordOfDecimals(decimals) ==
    IF decimals = <<"-", "3">> THEN "cheonwon"
    ELSE IF decimals = <<"-", "4">> THEN "manwon"
    ELSE IF decimals = <<"-", "6">> THEN "baengmanwon"
    ELSE IF decimals = <<"-", "8">> THEN "eogwon"
    ELSE "won"

\* C17: for decimals -8, -6, -4 or -3 and every unit code, the empty one
\* included, decimals_to_unit_label returns the matching magnitude word with
\* the unit code; for every other or absent decimals it returns the base
\* word with the unit code.
C17_MagnitudeWordForEveryUnit ==
    ncall.fn = "unit" =>
        ncall.out = Ok(LabelOf(WordOfDecimals(ncall.decimals), ncall.unit))

\* C18: for an integer raw value and negative decimals d,
\* format_number_with_decimals returns the digit-grouped integer quotient of
\* the value by 10^|d|, truncated toward zero.
C18_GroupedQuotient ==
    (/\ ncall.fn = "format"
     /\ ParseFloat(ncall.value).kind = "fin"
     /\ IntText(ncall.decimals).kind = "int"
     /\ IntText(ncall.decimals).neg) =>
        ncall.out = IntegerText(DividePow10(ParseFloat(ncall.value), IntText(ncall.decimals).n))

NonNumeric(value) == ParseFloat(value).kind = "error"

\* C19 as stated: a fact whose raw value is not numeric gets the formatted
\* value "0" and the base-unit label, and neither function raises.
C19_NonNumericBaseLabel ==
    (ncall.fn = "fact" /\ NonNumeric(ncall.value)) =>
        /\ ncall.out = Ok(<<"0">>)
        /\ ncall.label = Ok(LabelOf("won", ncall.unit))

\* C19 amended: a fact whose raw value is not numeric gets the formatted
\* value "0" and neither function raises; its unit label is the one its
\* decimals and unit code give, which is the magnitude word when decimals is
\* -8, -6, -4 or -3 and the unit code is not empty, and the base word
\* otherwise.
C19_NonNumericZeroLabelByDecimals ==
    (ncall.fn = "fact" /\ NonNumeric(ncall.value)) =>
        /\ ncall.out = Ok(<<"0">>)
        /\ ncall.label.kind = "ok"
        /\ ncall.label.text =
              LabelOf(IF ncall.unit = "" THEN "won" ELSE WordOfDecimals(ncall.decimals),
                      ncall.unit)

\* A non-numeric value with decimals -6 and unit KRW: "0" in millions.
C19_Witness ==
    /\ ncall.fn = "fact"
    /\ ncall.value = <<"x">>
    /\ ncall.decimals = <<"-", "6">>
    /\ ncall.unit = "KRW"
    /\ ncall.out = Ok(<<"0">>)
    /\ ncall.label = Ok(<<"baengmanwon", " ", "KRW">>)

\* The label file of the chosen directory, once find_xbrl_files has
\* returned: none, one that cannot be read, one that is not well-formed.
Located == fpc \in {"found", "tags", "labels", "done"} /\ findOut.kind = "returned"
LabelFilesFound == LabelFiles(available_dirs[corp_dir].files)
LabelMissing == LabelFilesFound = <<>>
LabelUnreadable == ~LabelMissing /\ LabelFilesFound[1].content.kind # "label"
LabelMalformed ==
    /\ ~LabelMissing
    /\ LabelFilesFound[1].content.kind = "label"
    /\ ~LabelFilesFound[1].content.wellformed
BareCaptions ==
    /\ Len(frame.records) = Len(extracted_tags)
    /\ \A i \in 1..Len(extracted_tags) : frame.records[i].item = extracted_tags[i].item

Extracted == Located /\ fpc \in {"tags", "labels", "done"}
DocElements == findOut.xbrl_soup.elements
AllowListed(e) == \E k \in 1..Len(allowed_tags) : allowed_tags[k] = e.name
Marked(e) == \E k \in 1..Len(e.contextRef) : e.contextRef[k] = "SeparateMember"
Meeting(Cond(_)) == { i \in 1..Len(DocElements) : Cond(DocElements[i]) }
FactOfSome(tag, S) ==
    \E i \in S :
       /\ tag.item = AfterFirst(DocElements[i].name, ":")
       /\ tag.contextRef = DocElements[i].contextRef
       /\ tag.value = Strip(DocElements[i].text)
       /\ tag.unit = DocElements[i].unitRef
       /\ tag.decimals = DocElements[i].decimals
NonEmptyText(e) ==
    AllowListed(e) /\ Marked(e) /\ e.text # <<>> /\ e.contextRef # <<>>
NonBlankText(e) ==
    AllowListed(e) /\ Marked(e) /\ Strip(e.text) # <<>> /\ e.contextRef # <<>>

\* C15 as stated: get_xbrl_tags returns a fact for an element if and only if
\* its name is in the allow-list, its context-reference contains
\* SeparateMember and its text and context-reference are not empty.
C15_FactIffNonEmptyText ==
    Extracted =>
        /\ Len(extracted_tags) = Cardinality(Meeting(NonEmptyText))
        /\ \A t \in 1..Len(extracted_tags) :
              FactOfSome(extracted_tags[t], Meeting(NonEmptyText))

\* C15 amended: get_xbrl_tags returns a fact for an element if and only if
\* its name is in the allow-list, its context-reference contains
\* SeparateMember, and its text with surrounding whitespace removed and its
\* context-reference are not empty; an element outside the allow-list or
\* without the marker is never returned.
C15_FactIffNonBlankText ==
    Extracted =>
        /\ Len(extracted_tags) = Cardinality(Meeting(NonBlankText))
        /\ \A t \in 1..Len(extracted_tags) :
              FactOfSome(extracted_tags[t], Meeting(NonBlankText))

\* A document with an unlisted element and a listed, marked one with text:
\* the second alone is returned.
C15_Witness ==
    /\ Extracted
    /\ Len(DocElements) = 2
    /\ ~AllowListed(DocElements[1])
    /\ NonBlankText(DocElements[2])
    /\ Len(extracted_tags) = 1
    /\ extracted_tags[1].item = <<"CurrentAssets">>

\* C20: whatever value and decimals texts the extracted facts carry,
\* extract_xbrl_to_dataframe returns exactly one record per extracted fact,
\* a fact that cannot be normalized carrying the value "0".
C20_OneRecordPerFact ==
    (Extracted /\ fpc = "done") =>
        /\ frame.kind = "returned"
        /\ Len(frame.records) = Len(extracted_tags)
        /\ \A i \in 1..Len(extracted_tags) :
              ParseFloat(extracted_tags[i].value).kind # "fin" =>
                 frame.records[i].value = <<"0">>

\* The call has returned the rows it assembled.
Assembled == Extracted /\ fpc = "done" /\ parseExc = "none" /\ extracted_tags # <<>>
InMap(item) == \E k \in 1..Len(label_mapping) : label_mapping[k].key = item

\* C21: the caption of a fact's record is the label map's entry for the
\* fact's bare tag name when the map has one, and the bare tag name itself
\* when it has none.
C21_CaptionIsLabelOrTagName ==
    Assembled =>
        /\ Len(frame.records) = Len(extracted_tags)
        /\ \A i \in 1..Len(extracted_tags) :
              IF InMap(extracted_tags[i].item)
              THEN \E k \in 1..Len(label_mapping) :
                      /\ label_mapping[k].key = extracted_tags[i].item
                      /\ frame.records[i].item = label_mapping[k].val
              ELSE frame.records[i].item = extracted_tags[i].item

\* Two facts, one named by the label map and one not.
C21_Witness ==
    /\ Assembled
    /\ Len(frame.records) = 2
    /\ InMap(extracted_tags[1].item)
    /\ frame.records[1].item = <<"yudongjasan">>
    /\ ~InMap(extracted_tags[2].item)
    /\ frame.records[2].item = <<"ElementsOfOtherStockholdersEquity">>

\* The place of a qualifying element in extraction order: by the position
\* of its name in the allow-list, then by its position in the document.
AllowIndex(e) == CHOOSE k \in 1..Len(allowed_tags) : allowed_tags[k] = e.name
Before(i, j) ==
    \/ AllowIndex(DocElements[i]) < AllowIndex(DocElements[j])
    \/ AllowIndex(DocElements[i]) = AllowIndex(DocElements[j]) /\ i < j
Rank(i) == Cardinality({ j \in Meeting(NonBlankText) : Before(j, i) }) + 1

\* C22: the assembler emits exactly one record per extracted fact, in
\* extraction order, and merges or drops none: the record at the place of
\* each qualifying element carries that element's year and caption, also
\* when two facts have the same caption and year.
C22_OneRecordPerFactInOrder ==
    (Extracted /\ fpc = "done") =>
        /\ Len(frame.records) = Cardinality(Meeting(NonBlankText))
        /\ \A i \in Meeting(NonBlankText) :
              /\ frame.records[Rank(i)].year = extract_year_from_context(DocElements[i].contextRef)
              /\ frame.records[Rank(i)].corp_code = code
              /\ frame.records[Rank(i)].item =
                    DictGet(label_mapping, AfterFirst(DocElements[i].name, ":"),
                            AfterFirst(DocElements[i].name, ":"))

\* The linkbase get_label_ko_mapping was called on, and what it returned.
MappedLinkbase == ncall.fn = "labels" /\ ncall.label_soup # NoDoc
LinkGroups == ncall.label_soup.links
Stored(tag) == \E k \in 1..Len(ncall.out) : ncall.out[k].key = tag
StoredLabel(tag) == ncall.out[CHOOSE k \in 1..Len(ncall.out) : ncall.out[k].key = tag].val
TargetTags == { <<"CurrentAssets">>, <<"Assets">> }
KoreanStandard(l) ==
    l.lang = "ko" /\ \E k \in 1..Len(l.role) : l.role[k] \in {"label", "standard", "Standard"}
\* The locator label from of group g stands for tag.
LocatorOf(g, from, tag) ==
    /\ HasKey(LocDict(LinkGroups[g].locs, <<>>), from)
    /\ AfterFirst(DictGet(LocDict(LinkGroups[g].locs, <<>>), from, <<>>), "_") = tag
\* The later of the places <<group, position>> of a set.
LastPlace(S) ==
    CHOOSE p \in S : \A q \in S : q[1] < p[1] \/ (q[1] = p[1] /\ q[2] <= p[2])
\* The arcs, and the label elements, through which a label reaches tag.
ArcsTo(tag) ==
    { p \in { <<g, a>> : g \in 1..Len(LinkGroups), a \in 1..MaxParts + 1 } :
        /\ p[2] <= Len(LinkGroups[p[1]].arcs)
        /\ LocatorOf(p[1], LinkGroups[p[1]].arcs[p[2]].from, tag)
        /\ \E l \in 1..Len(LinkGroups[p[1]].labels) :
              /\ KoreanStandard(LinkGroups[p[1]].labels[l])
              /\ LinkGroups[p[1]].labels[l].label = LinkGroups[p[1]].arcs[p[2]].to }
LabelsTo(tag) ==
    { p \in { <<g, l>> : g \in 1..Len(LinkGroups), l \in 1..MaxParts + 1 } :
        /\ p[2] <= Len(LinkGroups[p[1]].labels)
        /\ KoreanStandard(LinkGroups[p[1]].labels[p[2]])
        /\ \E a \in 1..Len(LinkGroups[p[1]].arcs) :
              /\ LinkGroups[p[1]].arcs[a].to = LinkGroups[p[1]].labels[p[2]].label
              /\ LocatorOf(p[1], LinkGroups[p[1]].arcs[a].from, tag) }

\* C25 as stated: when several arcs resolve to the same tag, the label
\* stored is that of the arc that comes last in document order, whatever
\* the order of the label elements.
C25_LastArcWins ==
    MappedLinkbase =>
        \A tag \in TargetTags :
           ArcsTo(tag) # {} =>
              LET p == LastPlace(ArcsTo(tag))
                  g == LinkGroups[p[1]]
              IN  /\ Stored(tag)
                  /\ \E l \in 1..Len(g.labels) :
                        /\ KoreanStandard(g.labels[l])
                        /\ g.labels[l].label = g.arcs[p[2]].to
                        /\ StoredLabel(tag) = Strip(g.labels[l].text)

\* C25 amended: when several arcs resolve to the same tag, the label stored
\* is the text of the label element that comes last in document order among
\* the Korean standard-role label elements linked to the tag (a later group
\* before an earlier one), whatever the order of the arcs.
C25_LastLabelElementWins ==
    MappedLinkbase =>
        \A tag \in TargetTags :
           /\ Stored(tag) <=> LabelsTo(tag) # {}
           /\ LabelsTo(tag) # {} =>
                 LET p == LastPlace(LabelsTo(tag))
                 IN  StoredLabel(tag) = Strip(LinkGroups[p[1]].labels[p[2]].text)

\* The arcs name lab2 and then lab1, the label elements come as lab1, lab2:
\* the text of lab2 is stored.
C25_Witness ==
    /\ MappedLinkbase
    /\ Len(LinkGroups) = 1
    /\ LinkGroups[1].arcs = <<LabelArc("loc1", "lab2"), LabelArc("loc1", "lab1")>>
    /\ LinkGroups[1].labels = <<Label("lab1", "ko", <<"role/", "label">>, <<"A">>),
                                Label("lab2", "ko", <<"role/", "label">>, <<" ", "B">>)>>
    /\ Stored(<<"CurrentAssets">>)
    /\ StoredLabel(<<"CurrentAssets">>) = <<"B">>

\* The tag a reference with a fragment names: what follows the '#', without
\* the namespace prefix.
HasFragment(href) == \E k \in 1..Len(href) : href[k] = "#"
TagOfHref(href) == AfterFirst(AfterFirst(href, "#"), "_")
LinkedKorean(g, loc) ==
    \E a \in 1..Len(g.arcs), l \in 1..Len(g.labels) :
       /\ g.arcs[a].from = loc.label
       /\ g.arcs[a].to = g.labels[l].label
       /\ KoreanStandard(g.labels[l])

\* C26: every locator whose reference carries a fragment, with or without a
\* document URI before it, stands for the tag after the fragment marker and
\* the namespace prefix; a label is stored for a tag exactly when an arc
\* links such a locator to a Korean standard-role label element, and every
\* stored label is the text of such an element.
C26_FragmentLocatorsMapped ==
    MappedLinkbase =>
        /\ \A g \in 1..Len(LinkGroups) : \A i \in 1..Len(LinkGroups[g].locs) :
              (HasFragment(LinkGroups[g].locs[i].href)
               /\ LinkedKorean(LinkGroups[g], LinkGroups[g].locs[i]))
                 => Stored(TagOfHref(LinkGroups[g].locs[i].href))
        /\ \A k \in 1..Len(ncall.out) :
              \E g \in 1..Len(LinkGroups) :
                 /\ \E i \in 1..Len(LinkGroups[g].locs) :
                       /\ HasFragment(LinkGroups[g].locs[i].href)
                       /\ TagOfHref(LinkGroups[g].locs[i].href) = ncall.out[k].key
                       /\ LinkedKorean(LinkGroups[g], LinkGroups[g].locs[i])
                 /\ \E l \in 1..Len(LinkGroups[g].labels) :
                       /\ KoreanStandard(LinkGroups[g].labels[l])
                       /\ ncall.out[k].val = Strip(LinkGroups[g].labels[l].text)

\* C23 as stated: a call on the fallback path that fails after it has
\* written k records leaves those k writes in storage.
C23_FallbackWritesRemain ==
    \A c \in Calls :
       (pc[c] = "done" /\ ~conOK[c] /\ raisedExc[c] # "none" /\ recs[c] # <<>>) =>
          \A j \in 1..(ins[c] + upd[c]) : WithKey(rows, Key(recs[c][j])) # {}

\* C23 amended: the statements of the fallback path run inside the same
\* transaction block as those of the constraint-backed path: when a call on
\* the fallback path fails after it has written k records, the block rolls
\* back and the stored rows are those of before the call.
C23_FallbackRolledBack ==
    [][\A c \in Calls :
          (Completes(c) /\ ~conOK[c] /\ pc[c] \in {"fb_check", "fb_write", "count2", "commit"}
             /\ ~result'[c].success) =>
                /\ rows' = rows
                /\ pend'[c] = {}]_vars

\* A fallback call inserted both records of its batch into the empty table
\* and then failed: the table is still empty.
C23_Witness ==
    /\ pc[1] = "done" /\ ~conOK[1]
    /\ raisedExc[1] = "PostgresError"
    /\ ins[1] + upd[1] = 2
    /\ rows = {}

\* C27: no record that lacks a required field (empty entity code, empty
\* metric name, year 0) is among the records a call works on, and no stored
\* or written row lacks one.
C27_MissingFieldsRemoved ==
    /\ \A c \in Calls : \A i \in 1..Len(recs[c]) : ~MissingField(recs[c][i])
    /\ \A r \in rows \cup UNION { pend[c] : c \in Calls } :
          r.corp_code # "" /\ r.source_name # "" /\ r.year # 0

\* The step on which _ensure_unique_constraint returns to its caller.
EnsureReturns(c) == pc[c] \in {"chk_con", "chk_tab", "alter"} /\ pc'[c] = "count1"

C24_WitnessFalseThoughPresent ==
    /\ pc[1] = "count1" /\ ~conOK[1] /\ conCommitted
    /\ ensureFailed[1] \in {"server", "client"}

BatchKeys(c) == { Key(recs[c][i]) : i \in 1..Len(recs[c]) }

\* C30: an upsert changes only what its batch names: every stored row is
\* still stored under its surrogate id with its entity code, metric name and
\* year, and a row whose natural key does not occur in the batch is stored
\* unchanged; the stored rows change only as a call completes.
C30_OnlyBatchKeysChange ==
    [][/\ rows' # rows => \E c \in Calls : Completes(c)
       /\ \A c \in Calls :
             Completes(c) =>
                \A r \in rows :
                   \E q \in rows' :
                      /\ q.id = r.id
                      /\ RowKey(q) = RowKey(r)
                      /\ RowKey(r) \notin BatchKeys(c) => q = r]_vars

\* A call whose batch names entity B only has succeeded; the stored row of
\* entity A has the value and unit it had, next to the new row of B.
C30_Witness ==
    /\ pc[1] = "done" /\ result[1].success
    /\ BatchKeys(1) = { <<"B", "m", 2023>> }
    /\ \E r \in rows : RowKey(r) = <<"A", "m", 2023>> /\ r.value = 12 /\ r.unit = "u2"
    /\ \E r \in rows : RowKey(r) = <<"B", "m", 2023>>

\* The upsert call of the service returned the failure summary (it did not
\* raise) and the service call returns on this step.
ReturnsAfterFailure ==
    /\ svcPc = "upsert" /\ svcPc' = "done"
    /\ ~result[1].success /\ result[1].error # "propagated"

====
